---- MODULE Spec2Model ----
(***************************************************************************)
(* Ingest core of the USB media vault: the job queue and processing set    *)
(* of ingest.Manager, ProcessMount / ingestFile as interleaving steps of   *)
(* concurrent runs, the catalog (media_files), the library file system,    *)
(* the hash-chained audit log and the published Status.                    *)
(***************************************************************************)
EXTENDS Integers, Sequences, FiniteSets, TLC

\* ---------------------------------------------------------------- bounds
\* number of tasks (ProcessMount runs and POST /api/storage requests) in one
\* behaviour
MaxTasks == 2
\* mount events waiting in the queue, in the full specification
MaxPending == 1
\* files of a mount, in the specification of sequential runs
MaxFiles == 2
\* ticks of the watcher in one behaviour
MaxTicks == 4
\* goroutines that call ReverseGeocoder.Reverse
MaxCallers == 2
\* Reverse calls in one behaviour
MaxCalls == 3
\* the last instant (ms) at which the clock of the geocoder still advances
MaxTime == 2200
\* the last instant (half seconds) at which the clock of the HTTP handlers
\* still advances
MaxNow == 5
\* sessionTTL, scaled to half seconds
SessionTTL == 3
\* ids in the body of a delete request, and the largest id in one
MaxIds == 3
MaxId == 3
\* characters of an argument of IsPathWithin
MaxPathLen == 4
\* the largest offset of a coordinate, in units of 0.0001 degree
MaxOffset == 4
\* rows of media_files when the map is queried
MaxRows == 4
\* the limit ListMapPointsFiltered takes for a limit that is not positive,
\* and its largest limit, scaled from 10000 and 50000 rows
DefaultMapLimit == 2
MaxMapLimit == 3
\* the seconds the sampler's clock runs for
MaxRateNow == 11
\* backup runs started, and files a run reports
MaxBackups == 3
MaxBackupFiles == 1

\* ------------------------------------------------------ program constants
\* capacity of the jobs channel
QueueCap == 16
\* minInterval of reverseNominatim, in milliseconds
MinInterval == 1100
\* the most ids handleMediaDelete takes from one request
MaxDeleteIDs == 5000
\* currentMBps reads the samples of the last 3 seconds; the sampler keeps
\* the samples of the last 10 seconds
RecentWindow == 3
KeepWindow == 10

\* ------------------------------------------------------------ paths
\* A cleaned absolute path is the sequence of its segments.
\* a removable volume under a mount root, and a folder that only a rescan
\* request can name
MountA == <<"media", "usb">>
MountB == <<"home", "import">>
Mounts == {MountA, MountB}
\* the volumes the watcher can report
Watched == {MountA}
Lib1 == <<"lib1">>
Lib2 == <<"lib2">>
StorageDirs == {Lib1, Lib2}
\* GetSetting's value for a key that has no row
Unset == <<"<unset>">>
\* a stored value of white space only, and what strings.TrimSpace makes of
\* a stored value (<<>> is the empty string)
Blank == <<" ">>

TrimSpace(value) == IF value = Blank THEN <<>> ELSE value

\* paths above, below and beside MountA
MountParent == <<"media">>
MountChild == <<"media", "usb", "DCIM">>
MountSibling == <<"media", "usb2">>
\* a mount whose root directory cannot be read
MountLocked == <<"media", "locked">>
Unreadable == {MountLocked}

PathKey(path) == path

normalizePathForCompare(path) == PathKey(path)

IsPrefix(s, t) == Len(s) <= Len(t) /\ SubSeq(t, 1, Len(s)) = s

IsPathWithin(path, parent) ==
    LET p   == normalizePathForCompare(path)
        par == normalizePathForCompare(parent)
    IN  IF p = par THEN TRUE ELSE IsPrefix(par, p)

\* a test that refuses only a mount inside the base or inside an exclusion
shouldSkipMountInsideOnly(mountPath, baseStorage, excludedMounts) ==
    \/ IsPathWithin(mountPath, baseStorage)
    \/ \E i \in 1..Len(excludedMounts) :
          IsPathWithin(mountPath, excludedMounts[i])

shouldSkipMount(mountPath, baseStorage, excludedMounts) ==
    \/ IsPathWithin(baseStorage, mountPath)
    \/ IsPathWithin(mountPath, baseStorage)
    \/ \E i \in 1..Len(excludedMounts) :
          \/ IsPathWithin(mountPath, excludedMounts[i])
          \/ IsPathWithin(excludedMounts[i], mountPath)

\* ------------------------------------------------------------ source files
\* A source file: base name (without extension), extension, size, CRC32 and
\* SHA-256 of its content, capture time (EXIF or mtime, seconds) and whether
\* its extension is in the supported table. gps is the EXIF position in
\* units of 0.0001 degree, <<>> when GPSLat/GPSLon are not valid.
MkFile(n, e, sz, c, s, t) ==
    [name |-> n, ext |-> e, size |-> sz, crc |-> c, sha |-> s, capture |-> t,
     gps |-> <<>>]

Img1  == MkFile("IMG1", ".jpg", 2, "c1", "s1", 1)
\* the same bytes under another name
Copy1 == MkFile("COPY", ".jpg", 2, "c1", "s1", 1)
\* the same name and bytes, modified one second later on the same day
Img1b == MkFile("IMG1", ".jpg", 2, "c1", "s1", 2)
Img2  == MkFile("IMG2", ".jpg", 3, "c2", "s2", 1)
Empty == MkFile("EMPTY", ".jpg", 0, "c0", "s0", 1)
Notes == MkFile("notes", ".txt", 1, "c3", "s3", 1)
\* a picture with a GPS position
GeoImg == [MkFile("GEO", ".jpg", 4, "c4", "s4", 1) EXCEPT
              !.gps = <<481234, 113456>>]

IsSupportedMedia(f) == f.ext = ".jpg"

\* the supported files of a mount, in walk order
Eligible(files) == SelectSeq(files, IsSupportedMedia)

DedupKey(f) == <<f.crc, f.size, f.capture>>

\* ------------------------------------------------------------ state
VARIABLES
    tree,        \* mount -> files found by WalkDir, in walk order
    settings,    \* settings table: base_storage_dir, excluded_mounts
    jobs,        \* Manager.jobs, the buffered channel
    processing,  \* Manager.processing, the set of path-keys being ingested
    dropLogged,  \* the "ingest queue full" line has been written to the log
    tasks,       \* task id -> goroutine state of a run or request handler
    fs,          \* library files, ".part" files included
    catalog,     \* media_files rows, ordered by id
    audit,       \* audit_logs rows, ordered by id
    clock,       \* time.Now, in ticks
    status,      \* Manager.status
    geo,         \* ReverseGeocoder, its cache table, its callers and the
                 \* requests it has sent
    watcher,     \* usb.Watcher: the mounted volumes, seen, the onNew calls
    app,         \* users and sessions tables, and the HTTP requests served
    pure,        \* the arguments and the result of a call of IsPathWithin
                 \* or of geoKey
    rate         \* Manager.rateSamples, the time the sampler reads, and
                 \* the last snapshot GetStatus returned

vars == <<tree, settings, jobs, processing, dropLogged, tasks, fs, catalog,
          audit, clock, status, geo, watcher, app, pure, rate>>

\* what the ingest actions leave alone
sideVars == <<geo, watcher, app, pure, rate>>

TaskIds == 1..MaxTasks

ZeroResult == [Scanned |-> 0, Copied |-> 0, Duplicates |-> 0, Errors |-> 0]

\* the empty string, as the prev_hash of the first entry
EmptyHash == <<>>

NoLog == [action |-> "", details |-> <<>>, file |-> 0, ts |-> 0,
          prev |-> EmptyHash]

\* no location: Reverse returned nil, or was not called
NoLoc == [GeocodeKey |-> <<>>, Address |-> <<>>]

\* the locals of handleMediaDelete: the normalized ids, recordByID, the
\* counters, and done, the ids counted so far with what each was counted as
NoDelete == [ids |-> <<>>, records |-> <<>>, deleted |-> 0, not_found |-> 0,
             failed |-> 0, done |-> <<>>]

\* ctx is the context ProcessMount was called with; loc and tried are the
\* location fields of the record in progress and how the call of Reverse
\* for it ended; errs0 is result.Errors when the file began; cancelIdx
\* is the file in progress when ctx was cancelled and lateHash whether a
\* later file was hashed
NoTask == [kind |-> "none", pc |-> "none", mount |-> <<>>, actor |-> "",
           base |-> <<>>, idx |-> 0, result |-> ZeroResult, dest |-> <<>>,
           log |-> NoLog, ret |-> "", seen |-> FALSE, ctx |-> "live",
           loc |-> NoLoc, tried |-> "none", errs0 |-> 0, cancelIdx |-> 0,
           lateHash |-> FALSE, del |-> NoDelete, exists |-> ""]
\* exists is what MediaExists answered for the file in progress: "yes",
\* "no", or "" while ingestFile has not asked

IdleStatus == [State |-> "idle", Mount |-> <<>>, TotalFiles |-> 0,
               ProcessedFiles |-> 0, CopiedFiles |-> 0, Duplicates |-> 0,
               Errors |-> 0, LastResult |-> ZeroResult]

\* ------------------------------------------------------- geocode state
GeoCallers == 1..MaxCallers

\* coordinates in units of 0.0001 degree: two points of one geo_key and
\* two points of two other keys
GeoPoints == {<<481234, 113456>>, <<481231, 113458>>, <<481301, 113456>>,
              <<0 - 337512, 1510049>>}

\* round(v, 3): math.Round(v * 1000) / 1000, in units of 0.001 degree
round(v) == IF v >= 0 THEN (v + 5) \div 10 ELSE 0 - ((5 - v) \div 10)

Abs(v) == IF v < 0 THEN 0 - v ELSE v

\* Sprintf("%.3f") of round(v, 3): the sign and the thousandths. math.Round
\* keeps the sign of its argument, so a negative v that rounds to zero is
\* rendered "-0.000"
Sprintf3(v) == <<IF v < 0 THEN "-" ELSE "", Abs(round(v))>>

GeoKey(lat, lon) == <<Sprintf3(lat), Sprintf3(lon)>>

\* the address the provider returns for the coordinates of a request
Nominatim(lat, lon) ==
    [GeocodeKey |-> GeoKey(lat, lon), Address |-> <<"address", lat, lon>>]

\* ctx is the caller's context, err the error Reverse returns
NoCaller == [pc |-> "idle", lat |-> 0, lon |-> 0, key |-> <<>>, call |-> 0,
             wake |-> 0, loc |-> NoLoc, ctx |-> "live", err |-> "nil"]

\* geocode.New: nextAt is time.Now(), no call in flight, an empty cache
GeoInit ==
    [now |-> 0, nextAt |-> 0, cache |-> <<>>, inflight |-> <<>>,
     calls |-> <<>>, reqs |-> <<>>, started |-> 0, returned |-> {},
     callers |-> [c \in GeoCallers |-> NoCaller]]

\* NewWatcher: nothing seen, no volume mounted, no onNew call made
\* mounted is what the mount roots hold, last the previous enumeration,
\* calls the onNew calls with the tick that made them
WatcherInit == [seen |-> {}, mounted |-> {}, last |-> {}, ticks |-> 0,
                calls |-> <<>>]

\* no response yet
NoResponse == [cookie |-> <<>>, status |-> 0, seq |-> 0]

\* no snapshot returned yet
NoSnapshot == [State |-> "", MBps |-> 0, seq |-> 0]

\* NewManager: no sample; the sampler's clock is at 0
RateInit == [now |-> 0, samples |-> <<>>, last |-> NoSnapshot]

\* no call yet
NoCall == [fn |-> "", args |-> <<>>, result |-> <<>>]

\* backup.NewManager: the status is idle; no run was started and Start was
\* not called; runs are the goroutines Start has launched, call is what
\* the last call of Start returned
BackupIdle == [State |-> "idle", Mode |-> "", Destination |-> "", Files |-> 0]

BackupInit == [status |-> BackupIdle, runs |-> <<>>,
               call |-> [ret |-> "", seq |-> 0]]

\* an empty database: no user, no session
AppInit == [users |-> <<>>, sessions |-> {}, now |-> 0, cookies |-> {},
            revoked |-> {}, last |-> NoResponse, backup |-> BackupInit]

\* the mount contents the full specification starts from: the same picture
\* on both volumes under one name, or under two names
Trees == {(MountA :> <<Img1, Notes>>) @@ (MountB :> <<Img1>>),
          (MountA :> <<Copy1, Empty>>) @@ (MountB :> <<Img1>>)}

Init ==
    /\ tree \in Trees
    /\ settings \in {[base_storage_dir |-> b, excluded_mounts |-> <<>>] :
                        b \in {Unset, Lib1}}
    /\ jobs = <<>>
    /\ processing = {}
    /\ dropLogged = FALSE
    /\ tasks = [t \in TaskIds |-> NoTask]
    /\ fs = {}
    /\ catalog = <<>>
    /\ audit = <<>>
    /\ clock = 1
    /\ status = IdleStatus
    /\ geo = GeoInit
    /\ watcher = WatcherInit
    /\ app = AppInit
    /\ rate = RateInit
    /\ pure = NoCall

\* ------------------------------------------------------------ audit.Logger
\* SHA-256 as a collision-free digest of the raw string
Sha256Hex(raw) == <<"sha256", raw>>

LastAuditHash(log) ==
    IF log = <<>> THEN EmptyHash ELSE log[Len(log)].entry_hash

\* set up a call of audit.Logger.Log; ret is where the caller continues
BeginLog(rec, action, details, file, ret) ==
    [rec EXCEPT !.pc = "log_read",
                !.log = [action |-> action, details |-> details,
                         file |-> file, ts |-> 0, prev |-> EmptyHash],
                !.ret = ret]

\* Logger.Log, first half: the timestamp and SELECT entry_hash ... LIMIT 1
LogRead(t) ==
    /\ tasks[t].pc = "log_read"
    /\ tasks[t].ctx = "live"
    /\ tasks' = [tasks EXCEPT ![t].pc = "log_insert",
                              ![t].log.ts = clock,
                              ![t].log.prev = LastAuditHash(audit)]
    /\ clock' = clock + 1
    /\ UNCHANGED <<sideVars, tree, settings, jobs, processing, dropLogged, fs,
                   catalog, audit, status>>

AuditEntry(rec, t) ==
    LET l == rec.log
    IN  [ts |-> l.ts, actor |-> rec.actor, action |-> l.action,
         details |-> l.details, prev_hash |-> l.prev,
         entry_hash |-> Sha256Hex(<<l.ts, rec.actor, l.action, l.details,
                                    l.prev>>),
         task |-> t, file |-> l.file]

\* Logger.Log, second half: the hash and INSERT INTO audit_logs
LogInsert(t) ==
    /\ tasks[t].pc = "log_insert"
    /\ tasks[t].ctx = "live"
    /\ audit' = Append(audit, AuditEntry(tasks[t], t))
    /\ tasks' = [tasks EXCEPT ![t].pc = tasks[t].ret, ![t].log = NoLog,
                              ![t].ret = ""]
    /\ UNCHANGED <<sideVars, tree, settings, jobs, processing, dropLogged, fs,
                   catalog, clock, status>>

\* Logger.Log with a cancelled context: the query or the insert fails,
\* and the callers in ingest drop the error (_ =)
LogCancelled(t) ==
    /\ tasks[t].pc \in {"log_read", "log_insert"}
    /\ tasks[t].ctx = "cancelled"
    /\ tasks' = [tasks EXCEPT ![t].pc = tasks[t].ret, ![t].log = NoLog,
                              ![t].ret = ""]
    /\ UNCHANGED <<sideVars, tree, settings, jobs, processing, dropLogged, fs,
                   catalog, audit, clock, status>>

\* ------------------------------------------------------------ queue
\* a send that makes room by discarding the oldest event
EnqueueEvictOldest(q, mountPath) ==
    IF Len(q) < QueueCap THEN Append(q, mountPath)
    ELSE Append(Tail(q), mountPath)

\* the select of QueueMount: send if the channel has room, else default
Enqueue(q, mountPath) ==
    IF Len(q) < QueueCap THEN Append(q, mountPath) ELSE q

QueueMount(mountPath) ==
    /\ jobs' = Enqueue(jobs, mountPath)
    /\ dropLogged' = (dropLogged \/ Len(jobs) >= QueueCap)
    /\ UNCHANGED <<sideVars, tree, settings, processing, tasks, fs, catalog, audit,
                   clock, status>>

FreeTasks == {t \in TaskIds : tasks[t].kind = "none"}

NewRun(kind, mountPath, actor) ==
    [NoTask EXCEPT !.kind = kind, !.pc = "preflight", !.mount = mountPath,
                   !.actor = actor]

\* a dispatcher that starts a run for every event it receives
DispatchNoLoadOrStore ==
    /\ jobs # <<>>
    /\ FreeTasks # {}
    /\ LET t == CHOOSE x \in FreeTasks : \A y \in FreeTasks : x <= y
       IN  tasks' = [tasks EXCEPT
                       ![t] = NewRun("queue", Head(jobs), "system")]
    /\ jobs' = Tail(jobs)
    /\ processing' = processing \cup {PathKey(Head(jobs))}
    /\ UNCHANGED <<sideVars, tree, settings, dropLogged, fs, catalog, audit,
                   clock, status>>

\* one iteration of the goroutine of Manager.Start: receive, LoadOrStore,
\* and either continue or start the goroutine that runs ProcessMount
Dispatch ==
    /\ jobs # <<>>
    /\ LET mount == Head(jobs)
       IN  IF PathKey(mount) \in processing
           THEN /\ jobs' = Tail(jobs)
                /\ UNCHANGED <<processing, tasks>>
           ELSE /\ FreeTasks # {}
                /\ LET t == CHOOSE x \in FreeTasks :
                                \A y \in FreeTasks : x <= y
                   IN  tasks' = [tasks EXCEPT
                                   ![t] = NewRun("queue", mount, "system")]
                /\ jobs' = Tail(jobs)
                /\ processing' = processing \cup {PathKey(mount)}
    /\ UNCHANGED <<sideVars, tree, settings, dropLogged, fs, catalog, audit,
                   clock, status>>

\* POST /api/rescan: the handler calls ProcessMount on its own goroutine
Rescan(mountPath) ==
    /\ FreeTasks # {}
    /\ LET t == CHOOSE x \in FreeTasks : \A y \in FreeTasks : x <= y
       IN  tasks' = [tasks EXCEPT ![t] = NewRun("rescan", mountPath, "admin")]
    /\ UNCHANGED <<sideVars, tree, settings, jobs, processing, dropLogged, fs,
                   catalog, audit, clock, status>>

\* POST /api/storage: SetSetting, then the storage_updated audit entry
SetStorage(base) ==
    /\ FreeTasks # {}
    /\ settings' = [settings EXCEPT !.base_storage_dir = base]
    /\ LET t == CHOOSE x \in FreeTasks : \A y \in FreeTasks : x <= y
       IN  tasks' = [tasks EXCEPT ![t] =
                       BeginLog([NoTask EXCEPT !.kind = "storage",
                                               !.actor = "admin"],
                                "storage_updated",
                                [storage_dir |-> base], 0, "done")]
    /\ UNCHANGED <<sideVars, tree, jobs, processing, dropLogged, fs, catalog,
                   audit, clock, status>>

\* ------------------------------------------------------------ rate sampler
\* the samples at or after the cutoff, from the first such sample on
RECURSIVE trimSamples(_, _)
trimSamples(samples, cutoff) ==
    IF samples # <<>> /\ Head(samples).At < cutoff
    THEN trimSamples(Tail(samples), cutoff)
    ELSE samples

\* append(m.rateSamples, rateSample{At: now, Bytes: bytes}); samples taken
\* at one instant are kept as one sample with the sum of their bytes
appendSample(samples, at, bytes) ==
    IF samples # <<>> /\ samples[Len(samples)].At = at
    THEN [samples EXCEPT ![Len(samples)].Bytes = @ + bytes]
    ELSE Append(samples, [At |-> at, Bytes |-> bytes])

recordRateSample(r, bytes) ==
    IF bytes <= 0
    THEN r
    ELSE [r EXCEPT !.samples = trimSamples(appendSample(@, r.now, bytes),
                                           r.now - KeepWindow)]

resetRateSamples(r) == [r EXCEPT !.samples = <<>>]

RECURSIVE SumBytes(_)
SumBytes(samples) ==
    IF samples = <<>> THEN 0
    ELSE Head(samples).Bytes + SumBytes(Tail(samples))

\* currentMBps, in bytes per 6000 seconds: the bytes of the samples of the
\* last RecentWindow seconds over the time since the first of them, which
\* counts as a millisecond when it is zero
currentMBps(r) ==
    LET recent == SelectSeq(trimSamples(r.samples, r.now - KeepWindow),
                            LAMBDA x : x.At >= r.now - RecentWindow)
        bytes  == SumBytes(recent)
    IN  IF bytes <= 0
        THEN 0
        ELSE IF r.now = recent[1].At
        THEN bytes * 6000000
        ELSE (bytes * 6000) \div (r.now - recent[1].At)

\* what GetStatus leaves alone
rateUnchanged == <<tree, settings, jobs, processing, dropLogged, tasks, fs,
                   catalog, audit, clock, status, geo, watcher, app, pure>>

\* a GetStatus that reports the rate in every state
GetStatusAnyState ==
    /\ rate' = [rate EXCEPT
                  !.samples = trimSamples(@, rate.now - KeepWindow),
                  !.last = [State |-> status.State,
                            MBps |-> currentMBps(rate),
                            seq |-> 1 - rate.last.seq]]
    /\ UNCHANGED rateUnchanged

\* Manager.GetStatus: the snapshot it returns, and the samples currentMBps
\* trims when the state is ingesting
GetStatus ==
    /\ rate' = [rate EXCEPT
                  !.samples = IF status.State = "ingesting"
                              THEN trimSamples(@, rate.now - KeepWindow)
                              ELSE @,
                  !.last = [State |-> status.State,
                            MBps |-> IF status.State = "ingesting"
                                     THEN currentMBps(rate)
                                     ELSE 0,
                            seq |-> 1 - rate.last.seq]]
    /\ UNCHANGED rateUnchanged

\* a second passes
RateTick ==
    /\ rate.now < MaxRateNow
    /\ rate' = [rate EXCEPT !.now = @ + 1]
    /\ UNCHANGED rateUnchanged

\* ------------------------------------------------------------ library
fileExists(files, path) == \E f \in files : f.path = path

\* year, month and day of a capture time (seconds)
DateSegs(capture) == <<"day" \o ToString(capture \div 86400)>>

PartPath(dstPath) ==
    [i \in 1..Len(dstPath) |->
        IF i = Len(dstPath) THEN dstPath[i] \o ".part" ELSE dstPath[i]]

\* the i-th destination candidate; 0 is the name without a counter
Candidate(folder, f, i) ==
    folder \o <<f.name \o "_" \o f.sha
                \o (IF i = 0 THEN "" ELSE "_" \o ToString(i)) \o f.ext>>

\* buildLocationFolderParts: the folders named after the location fields
\* of the record, none when the fields are empty
buildLocationFolderParts(loc) ==
    IF loc = NoLoc
    THEN <<>>
    ELSE <<"loc_" \o loc.GeocodeKey[1][1]
                  \o ToString(loc.GeocodeKey[1][2]) \o "_"
                  \o loc.GeocodeKey[2][1]
                  \o ToString(loc.GeocodeKey[2][2])>>

\* buildDestinationPath with layout location_date; <<>> is its error
buildDestinationPath(files, baseStorage, f, locParts) ==
    LET folder == baseStorage
                  \o (IF locParts # <<>> THEN locParts ELSE <<"Unknown">>)
                  \o DateSegs(f.capture)
    IN  IF ~fileExists(files, Candidate(folder, f, 0))
        THEN Candidate(folder, f, 0)
        ELSE IF \E i \in 1..10000 :
                   ~fileExists(files, Candidate(folder, f, i))
             THEN Candidate(folder, f,
                     CHOOSE i \in 1..10000 :
                        ~fileExists(files, Candidate(folder, f, i)))
             ELSE <<>>

\* ------------------------------------------------------------ catalog
\* a probe whose query binds the CRC to the sha256 column
MediaExistsWrongColumn(rows, crc32, size, captureTime) ==
    \E i \in 1..Len(rows) :
        /\ rows[i].sha256 = crc32
        /\ rows[i].size_bytes = size
        /\ rows[i].capture_time = captureTime

\* a probe that leaves the capture time out of the query
MediaExistsNoCapture(rows, crc32, size, captureTime) ==
    \E i \in 1..Len(rows) :
        /\ rows[i].crc32 = crc32
        /\ rows[i].size_bytes = size

MediaExists(rows, crc32, size, captureTime) ==
    \E i \in 1..Len(rows) :
        /\ rows[i].crc32 = crc32
        /\ rows[i].size_bytes = size
        /\ rows[i].capture_time = captureTime

\* a schema without UNIQUE (crc32, size_bytes, capture_time)
UniqueViolationDestOnly(rows, rec) ==
    \E i \in 1..Len(rows) : rows[i].dest_path = rec.dest_path

\* the UNIQUE constraints of media_files
UniqueViolation(rows, rec) ==
    \E i \in 1..Len(rows) :
        \/ rows[i].dest_path = rec.dest_path
        \/ /\ rows[i].crc32 = rec.crc32
           /\ rows[i].size_bytes = rec.size_bytes
           /\ rows[i].capture_time = rec.capture_time

\* InsertMedia: the rows afterwards; unchanged when the INSERT fails
InsertMedia(rows, rec) ==
    IF UniqueViolation(rows, rec)
    THEN rows
    ELSE Append(rows, [rec EXCEPT !.id = Len(rows) + 1])

\* ------------------------------------------------------------ ProcessMount
RunFiles(rec) == Eligible(tree[rec.mount])

CurFile(rec) == RunFiles(rec)[rec.idx]

SourcePath(rec) ==
    rec.mount \o <<"dir" \o ToString(rec.idx),
                   CurFile(rec).name \o CurFile(rec).ext>>

MountDetails(rec) == [mount |-> rec.mount]

\* the end of ProcessMount and of its caller: the deferred
\* processing.Delete of a dispatched run, the response of a rescan
AfterReturn(rec) == IF rec.kind = "queue" THEN "release" ELSE "done"

\* a preflight that tests only whether the setting has a row
PreflightRowOnly(t) ==
    LET rec  == tasks[t]
        base == settings.base_storage_dir
    IN  /\ rec.pc = "preflight"
        /\ tasks' = [tasks EXCEPT ![t] =
              IF base = Unset
              THEN BeginLog(rec, "ingest_skipped_no_storage",
                            MountDetails(rec), 0, AfterReturn(rec))
              ELSE IF shouldSkipMount(rec.mount, base,
                                      settings.excluded_mounts)
              THEN BeginLog(rec, "ingest_skipped_excluded_mount",
                            MountDetails(rec), 0, AfterReturn(rec))
              ELSE [rec EXCEPT !.pc = "scan_start", !.base = base]]
        /\ UNCHANGED <<sideVars, tree, settings, jobs, processing, dropLogged,
                       fs, catalog, audit, clock, status>>

\* GetSetting(base_storage_dir), GetSetting(excluded_mounts), shouldSkipMount
Preflight(t) ==
    LET rec  == tasks[t]
        base == settings.base_storage_dir
    IN  /\ rec.pc = "preflight"
        /\ rec.ctx = "live"
        /\ tasks' = [tasks EXCEPT ![t] =
              IF base = Unset \/ TrimSpace(base) = <<>>
              THEN BeginLog(rec, "ingest_skipped_no_storage",
                            MountDetails(rec), 0, AfterReturn(rec))
              ELSE IF shouldSkipMount(rec.mount, base,
                                      settings.excluded_mounts)
              THEN BeginLog(rec, "ingest_skipped_excluded_mount",
                            MountDetails(rec), 0, AfterReturn(rec))
              ELSE [rec EXCEPT !.pc = "scan_start", !.base = base]]
        /\ UNCHANGED <<sideVars, tree, settings, jobs, processing, dropLogged,
                       fs, catalog, audit, clock, status>>

\* a run that publishes scanning but writes no ingest_started entry
ScanStartNoAudit(t) ==
    LET rec == tasks[t]
    IN  /\ rec.pc = "scan_start"
        /\ status' = [IdleStatus EXCEPT !.State = "scanning",
                                        !.Mount = rec.mount]
        /\ tasks' = [tasks EXCEPT ![t].pc = "scan"]
        /\ rate' = resetRateSamples(rate)
        /\ UNCHANGED <<geo, watcher, app, pure, tree, settings, jobs,
                       processing, dropLogged, fs, catalog, audit, clock>>

\* setStatus(scanning), resetRateSamples and the call of Log(ingest_started)
ScanStart(t) ==
    LET rec == tasks[t]
    IN  /\ rec.pc = "scan_start"
        /\ status' = [IdleStatus EXCEPT !.State = "scanning",
                                        !.Mount = rec.mount]
        /\ tasks' = [tasks EXCEPT ![t] =
              BeginLog(rec, "ingest_started", MountDetails(rec), 0, "scan")]
        /\ rate' = resetRateSamples(rate)
        /\ UNCHANGED <<geo, watcher, app, pure, tree, settings, jobs,
                       processing, dropLogged, fs, catalog, audit, clock>>

\* what both walk callbacks return when WalkDir hands them an error
\* (result.Errors++; return nil)
OnWalkError == "nil"

\* filepath.WalkDir: the callback decides what a failed root returns
WalkDir(mountPath) ==
    IF mountPath \in Unreadable THEN OnWalkError ELSE "nil"

\* the callback's result.Errors++ of one walk
WalkErrors(mountPath) == IF mountPath \in Unreadable THEN 1 ELSE 0

\* where the ingest pass goes after file idx - 1: the next file, or the
\* end of the walk and the test of walkErr
NextFile(rec, idx) ==
    IF idx <= Len(RunFiles(rec))
    THEN [rec EXCEPT !.pc = "file", !.idx = idx, !.dest = <<>>,
                     !.seen = FALSE, !.loc = NoLoc, !.tried = "none",
                     !.errs0 = rec.result.Errors, !.exists = ""]
    ELSE LET walked == [rec EXCEPT !.idx = 0, !.dest = <<>>,
                                   !.seen = FALSE, !.loc = NoLoc,
                                   !.tried = "none", !.exists = "",
                                   !.result.Errors =
                                       @ + WalkErrors(rec.mount)]
         IN  IF WalkDir(rec.mount) # "nil"
             THEN [walked EXCEPT !.pc = "finalize", !.ret = "walk_error"]
             ELSE BeginLog(walked, "ingest_completed",
                           [mount |-> rec.mount, result |-> walked.result],
                           0, "finalize")

\* the first WalkDir and bumpStatus(ingesting)
Scan(t) ==
    LET rec   == tasks[t]
        total == Len(RunFiles(rec))
        rec2  == [rec EXCEPT !.result.Scanned = total,
                             !.result.Errors = @ + WalkErrors(rec.mount)]
    IN  /\ rec.pc = "scan"
        /\ IF WalkDir(rec.mount) # "nil"
           THEN /\ status' = [status EXCEPT !.State = "error",
                                            !.Errors = @ + 1]
                /\ tasks' = [tasks EXCEPT
                                ![t] = [rec2 EXCEPT !.pc = AfterReturn(rec)]]
           ELSE /\ status' = [status EXCEPT !.State = "ingesting",
                                            !.TotalFiles = total]
                /\ tasks' = [tasks EXCEPT ![t] = NextFile(rec2, 1)]
        /\ UNCHANGED <<sideVars, tree, settings, jobs, processing, dropLogged,
                       fs, catalog, audit, clock>>

FileDetails(rec, dest) ==
    [source_path |-> SourcePath(rec), dest_path |-> dest,
     crc32 |-> CurFile(rec).crc, capture_time |-> CurFile(rec).capture]

\* ingestFile from the answer of MediaExists to the call of Reverse or of
\* buildDestinationPath, or to the duplicate_skipped entry
AfterMediaExists(rec) ==
    LET f   == CurFile(rec)
        had == \E i \in 1..Len(catalog) :
                  <<catalog[i].crc32, catalog[i].size_bytes,
                    catalog[i].capture_time>> = DedupKey(f)
    IN  IF MediaExists(catalog, f.crc, f.size, f.capture)
        THEN BeginLog([rec EXCEPT !.result.Duplicates = @ + 1,
                                  !.seen = had, !.exists = "yes"],
                      "duplicate_skipped", FileDetails(rec, <<>>),
                      rec.idx, "file_end")
        ELSE [rec EXCEPT !.pc = IF f.gps # <<>> THEN "geocode" ELSE "build",
                         !.seen = had, !.exists = "no"]

\* ingestFile up to the dedup probe: Stat, ComputeHashesWithProgress with
\* recordRateSample as its progress callback,
\* ExtractMetadata, normalizeCaptureTime, MediaExists
FileProbe(t) ==
    LET rec  == tasks[t]
        f    == CurFile(rec)
    IN  /\ rec.pc = "file"
        /\ f.size = 0 \/ rec.ctx = "live"
        /\ tasks' = [tasks EXCEPT ![t] =
              IF f.size = 0
              THEN [rec EXCEPT !.pc = "file_end"]
              ELSE AfterMediaExists(rec)]
        /\ rate' = recordRateSample(rate, f.size)
        /\ UNCHANGED <<geo, watcher, app, pure, tree, settings, jobs,
                       processing, dropLogged, fs, catalog, audit, clock,
                       status>>

\* buildDestinationPath with the location fields of the record
BuildDest(t) ==
    LET rec  == tasks[t]
        dest == buildDestinationPath(fs, rec.base, CurFile(rec),
                                     buildLocationFolderParts(rec.loc))
    IN  /\ rec.pc = "build"
        /\ tasks' = [tasks EXCEPT ![t] =
              IF dest = <<>>
              THEN [rec EXCEPT !.pc = "file_end", !.result.Errors = @ + 1]
              ELSE [rec EXCEPT !.pc = "copy", !.dest = dest]]
        /\ UNCHANGED <<sideVars, tree, settings, jobs, processing, dropLogged,
                       fs, catalog, audit, clock, status>>

\* a file of the library: part tells a ".part" path, complete that all the
\* bytes of the source are written and synced
LibFile(path, f, part, t, idx) ==
    [path |-> path, crc |-> f.crc, size |-> f.size, sha |-> f.sha,
     part |-> part, task |-> t, file |-> idx, complete |-> TRUE]

\* copyFileAtomic up to Sync: O_CREATE|O_EXCL on <dst>.part, CopyBuffer
\* with addCopiedBytes as its progress callback
CopyPart(t) ==
    LET rec == tasks[t]
        tmp == PartPath(rec.dest)
    IN  /\ rec.pc = "copy"
        /\ IF fileExists(fs, tmp)
           THEN /\ tasks' = [tasks EXCEPT ![t].pc = "file_end",
                                          ![t].result.Errors = @ + 1]
                /\ fs' = fs
                /\ rate' = rate
           ELSE /\ tasks' = [tasks EXCEPT ![t].pc = "rename"]
                /\ fs' = fs \cup {LibFile(tmp, CurFile(rec), TRUE, t,
                                          rec.idx)}
                /\ rate' = recordRateSample(rate, CurFile(rec).size)
        /\ UNCHANGED <<geo, watcher, app, pure, tree, settings, jobs,
                       processing, dropLogged, catalog, audit, clock, status>>

\* os.Rename(tmpPath, dstPath) replaces whatever is at dstPath
Rename(files, tmpPath, dstPath) ==
    LET src == CHOOSE f \in files : f.path = tmpPath
    IN  {f \in files : f.path # tmpPath /\ f.path # dstPath}
        \cup {[src EXCEPT !.path = dstPath, !.part = FALSE]}

\* copyFileAtomic from Rename on
CopyRename(t) ==
    LET rec == tasks[t]
    IN  /\ rec.pc = "rename"
        /\ fs' = Rename(fs, PartPath(rec.dest), rec.dest)
        /\ tasks' = [tasks EXCEPT ![t].pc = "insert"]
        /\ UNCHANGED <<sideVars, tree, settings, jobs, processing, dropLogged,
                       catalog, audit, clock, status>>

MediaRecord(rec, t) ==
    LET f == CurFile(rec)
    IN  [id |-> 0, source_mount |-> rec.mount, source_path |-> SourcePath(rec),
         dest_path |-> rec.dest, size_bytes |-> f.size, crc32 |-> f.crc,
         sha256 |-> f.sha, capture_time |-> f.capture, loc |-> rec.loc,
         task |-> t, file |-> rec.idx]

\* an ingestFile that writes file_ingested whatever InsertMedia returned
InsertAuditsFailure(t) ==
    LET rec  == tasks[t]
        rows == InsertMedia(catalog, MediaRecord(rec, t))
    IN  /\ rec.pc = "insert"
        /\ catalog' = rows
        /\ tasks' = [tasks EXCEPT ![t] =
              IF rows = catalog
              THEN BeginLog(rec, "file_ingested", FileDetails(rec, rec.dest),
                            rec.idx, "remove")
              ELSE BeginLog([rec EXCEPT !.result.Copied = @ + 1],
                            "file_ingested", FileDetails(rec, rec.dest),
                            rec.idx, "file_end")]
        /\ UNCHANGED <<sideVars, tree, settings, jobs, processing, dropLogged,
                       fs, audit, clock, status>>

\* InsertMedia and what ingestFile does with its result
Insert(t) ==
    LET rec  == tasks[t]
        rows == InsertMedia(catalog, MediaRecord(rec, t))
    IN  /\ rec.pc = "insert"
        /\ rec.ctx = "live"
        /\ catalog' = rows
        /\ tasks' = [tasks EXCEPT ![t] =
              IF rows = catalog
              THEN [rec EXCEPT !.pc = "remove"]
              ELSE BeginLog([rec EXCEPT !.result.Copied = @ + 1],
                            "file_ingested", FileDetails(rec, rec.dest),
                            rec.idx, "file_end")]
        /\ UNCHANGED <<sideVars, tree, settings, jobs, processing, dropLogged,
                       fs, audit, clock, status>>

\* os.Remove(destPath) after a failed insert; the error names "unique"
RemoveDest(t) ==
    LET rec == tasks[t]
    IN  /\ rec.pc = "remove"
        /\ fs' = {f \in fs : f.path # rec.dest}
        /\ tasks' = [tasks EXCEPT ![t].pc = "file_end",
                                  ![t].result.Duplicates = @ + 1]
        /\ UNCHANGED <<sideVars, tree, settings, jobs, processing, dropLogged,
                       catalog, audit, clock, status>>

\* the bumpStatus that ends the walk callback, then the next file or
\* the call of Log(ingest_completed)
FileEnd(t) ==
    LET rec == tasks[t]
    IN  /\ rec.pc = "file_end"
        /\ status' = [status EXCEPT !.ProcessedFiles = @ + 1,
                                    !.CopiedFiles = rec.result.Copied,
                                    !.Duplicates = rec.result.Duplicates,
                                    !.Errors = rec.result.Errors]
        /\ tasks' = [tasks EXCEPT ![t] = NextFile(rec, rec.idx + 1)]
        /\ UNCHANGED <<sideVars, tree, settings, jobs, processing, dropLogged,
                       fs, catalog, audit, clock>>

\* the end of ProcessMount: bumpStatus(error) when walkErr is set, else
\* setStatus(idle) with LastResult, and the return
Finalize(t) ==
    LET rec == tasks[t]
    IN  /\ rec.pc = "finalize"
        /\ status' = IF rec.ret = "walk_error"
                     THEN [status EXCEPT !.State = "error",
                                         !.Errors = @ + 1]
                     ELSE [IdleStatus EXCEPT !.LastResult = rec.result]
        /\ tasks' = [tasks EXCEPT ![t].pc = AfterReturn(rec),
                                  ![t].ret = ""]
        /\ UNCHANGED <<sideVars, tree, settings, jobs, processing, dropLogged,
                       fs, catalog, audit, clock>>

\* a goroutine that ends without the deferred Delete
ReleaseNoDelete(t) ==
    LET rec == tasks[t]
    IN  /\ rec.pc = "release"
        /\ tasks' = [tasks EXCEPT ![t].pc = "done"]
        /\ UNCHANGED <<sideVars, tree, settings, jobs, processing, dropLogged,
                       fs, catalog, audit, clock, status>>

\* defer m.processing.Delete in the goroutine started by Manager.Start
Release(t) ==
    LET rec == tasks[t]
    IN  /\ rec.pc = "release"
        /\ processing' = processing \ {PathKey(rec.mount)}
        /\ tasks' = [tasks EXCEPT ![t].pc = "done"]
        /\ UNCHANGED <<sideVars, tree, settings, jobs, dropLogged, fs, catalog,
                       audit, clock, status>>

\* ingestFile returns an error before anything is written: os.Stat,
\* ComputeHashesWithProgress, ExtractMetadata or MediaExists failed
FailProbe(t) ==
    /\ tasks[t].pc = "file"
    /\ tasks' = [tasks EXCEPT ![t].pc = "file_end",
                              ![t].result.Errors = @ + 1]
    /\ UNCHANGED <<sideVars, tree, settings, jobs, processing, dropLogged, fs,
                   catalog, audit, clock, status>>

\* a copy that fails and leaves its part file behind
FailCopyKeepsPart(t) ==
    LET rec == tasks[t]
        tmp == PartPath(rec.dest)
    IN  /\ rec.pc = "copy"
        /\ ~fileExists(fs, tmp)
        /\ fs' = fs \cup {LibFile(tmp, CurFile(rec), TRUE, t, rec.idx)}
        /\ tasks' = [tasks EXCEPT ![t].pc = "file_end",
                                  ![t].result.Errors = @ + 1]
        /\ UNCHANGED <<sideVars, tree, settings, jobs, processing, dropLogged,
                       catalog, audit, clock, status>>

\* copyFileAtomic fails in CopyBuffer or Sync: the part file it created is
\* removed again
FailCopy(t) ==
    LET rec == tasks[t]
        tmp == PartPath(rec.dest)
    IN  /\ rec.pc = "copy"
        /\ ~fileExists(fs, tmp)
        /\ fs' = {f \in fs \cup {LibFile(tmp, CurFile(rec), TRUE, t,
                                         rec.idx)} : f.path # tmp}
        /\ tasks' = [tasks EXCEPT ![t].pc = "file_end",
                                  ![t].result.Errors = @ + 1]
        /\ UNCHANGED <<sideVars, tree, settings, jobs, processing, dropLogged,
                       catalog, audit, clock, status>>

\* copyFileAtomic fails in os.Rename: os.Remove(tmpPath)
FailRename(t) ==
    LET rec == tasks[t]
    IN  /\ rec.pc = "rename"
        /\ fs' = {f \in fs : f.path # PartPath(rec.dest)}
        /\ tasks' = [tasks EXCEPT ![t].pc = "file_end",
                                  ![t].result.Errors = @ + 1]
        /\ UNCHANGED <<sideVars, tree, settings, jobs, processing, dropLogged,
                       catalog, audit, clock, status>>

\* InsertMedia fails with an error that does not name "unique":
\* os.Remove(destPath), and the error goes to the caller
FailInsert(t) ==
    LET rec == tasks[t]
    IN  /\ rec.pc = "insert"
        /\ fs' = {f \in fs : f.path # rec.dest}
        /\ tasks' = [tasks EXCEPT ![t].pc = "file_end",
                                  ![t].result.Errors = @ + 1]
        /\ UNCHANGED <<sideVars, tree, settings, jobs, processing, dropLogged,
                       catalog, audit, clock, status>>

\* the steps of a run that no other task interferes with
RunStep(t) ==
    \/ Preflight(t)
    \/ ScanStart(t)
    \/ Scan(t)
    \/ FileProbe(t)
    \/ BuildDest(t)
    \/ CopyPart(t)
    \/ CopyRename(t)
    \/ Insert(t)
    \/ FileEnd(t)
    \/ Finalize(t)
    \/ LogRead(t)
    \/ LogInsert(t)

TaskStep(t) ==
    \/ RunStep(t)
    \/ RemoveDest(t)
    \/ Release(t)

\* The full specification: the watcher's events, the dispatcher, rescan and
\* storage requests, and the runs they start, arbitrarily interleaved.
Next ==
    \/ \E m \in Watched :
          /\ Len(jobs) < MaxPending
          /\ QueueMount(m)
    \/ Dispatch
    \/ \E m \in Mounts : Rescan(m)
    \/ \E b \in StorageDirs : SetStorage(b)
    \/ \E t \in TaskIds : TaskStep(t)

Spec == Init /\ [][Next]_vars

\* a task is inside ProcessMount
Running(t) ==
    /\ tasks[t].kind \in {"queue", "rescan"}
    /\ tasks[t].pc \notin {"release", "done"}

\* Sequential runs: a configured vault, any small mount contents, and rescan
\* requests that arrive only while no run is active.
SeqsUpTo(S, n) == UNION {[1..k -> S] : k \in 0..n}

FileUniverse == {Img1, Copy1, Img1b, Img2, Empty, Notes}

InitSeq ==
    /\ tree \in {(MountA :> a) @@ (MountB :> b) :
                    a \in SeqsUpTo(FileUniverse, MaxFiles),
                    b \in {<<>>, <<Img1>>, <<Img2, Copy1>>}}
    /\ settings = [base_storage_dir |-> Lib1, excluded_mounts |-> <<>>]
    /\ jobs = <<>>
    /\ processing = {}
    /\ dropLogged = FALSE
    /\ tasks = [t \in TaskIds |-> NoTask]
    /\ fs = {}
    /\ catalog = <<>>
    /\ audit = <<>>
    /\ clock = 1
    /\ status = IdleStatus
    /\ geo = GeoInit
    /\ watcher = WatcherInit
    /\ app = AppInit
    /\ rate = RateInit
    /\ pure = NoCall

NextSeq ==
    \/ \E m \in Mounts :
          /\ \A t \in TaskIds : ~Running(t)
          /\ Rescan(m)
    \/ \E t \in TaskIds : RunStep(t)

SpecSeq == InitSeq /\ [][NextSeq]_vars

\* The queue under load: QueueMount is called for any mount, without bound,
\* while the dispatcher receives; the runs it starts have not yet taken a
\* step.
InitQueue ==
    /\ Init
    /\ settings.base_storage_dir = Lib1
    /\ tree[MountA] = <<Img1, Notes>>

NextQueue ==
    \/ \E m \in Mounts : QueueMount(m)
    \/ Dispatch

SpecQueue == InitQueue /\ [][NextQueue]_vars

\* Preflight: any stored base (none, empty, blank, a library beside, at,
\* above or below MountA) and any exclusion list, with concurrent rescans.
PreBases ==
    {Unset, <<>>, Blank, Lib1, MountA, MountParent, MountChild, MountSibling}

PreExcluded ==
    {<<>>, <<MountA>>, <<MountParent>>, <<MountChild>>,
     <<Lib2, MountSibling>>}

InitPre ==
    /\ tree = (MountA :> <<Img1, Notes>>) @@ (MountB :> <<Img1>>)
    /\ settings \in {[base_storage_dir |-> b, excluded_mounts |-> e] :
                        b \in PreBases, e \in PreExcluded}
    /\ jobs = <<>>
    /\ processing = {}
    /\ dropLogged = FALSE
    /\ tasks = [t \in TaskIds |-> NoTask]
    /\ fs = {}
    /\ catalog = <<>>
    /\ audit = <<>>
    /\ clock = 1
    /\ status = IdleStatus
    /\ geo = GeoInit
    /\ watcher = WatcherInit
    /\ app = AppInit
    /\ rate = RateInit
    /\ pure = NoCall

NextPre ==
    \/ \E m \in Mounts : Rescan(m)
    \/ \E t \in TaskIds : RunStep(t)
    \/ \E t \in TaskIds : RemoveDest(t)

SpecPre == InitPre /\ [][NextPre]_vars

\* Walks that fail: one rescan at a time of a readable mount and of a mount
\* whose root cannot be read.
InitWalk ==
    /\ tree \in {(MountA :> a) @@ (MountLocked :> <<>>) :
                    a \in {<<Img1>>, <<Img2, Notes>>}}
    /\ settings = [base_storage_dir |-> Lib1, excluded_mounts |-> <<>>]
    /\ jobs = <<>>
    /\ processing = {}
    /\ dropLogged = FALSE
    /\ tasks = [t \in TaskIds |-> NoTask]
    /\ fs = {}
    /\ catalog = <<>>
    /\ audit = <<>>
    /\ clock = 1
    /\ status = IdleStatus
    /\ geo = GeoInit
    /\ watcher = WatcherInit
    /\ app = AppInit
    /\ rate = RateInit
    /\ pure = NoCall

NextWalk ==
    \/ \E m \in {MountA, MountLocked} :
          /\ \A t \in TaskIds : ~Running(t)
          /\ Rescan(m)
    \/ \E t \in TaskIds : RunStep(t)

SpecWalk == InitWalk /\ [][NextWalk]_vars

\* Faults: one rescan at a time, where any file operation of ingestFile may
\* fail.
FaultStep(t) ==
    \/ FailProbe(t)
    \/ FailCopy(t)
    \/ FailRename(t)
    \/ FailInsert(t)

InitFault ==
    /\ tree \in {(MountA :> a) @@ (MountB :> <<Img1>>) :
                    a \in SeqsUpTo({Img1, Copy1, Img2, Empty}, MaxFiles)}
    /\ settings = [base_storage_dir |-> Lib1, excluded_mounts |-> <<>>]
    /\ jobs = <<>>
    /\ processing = {}
    /\ dropLogged = FALSE
    /\ tasks = [t \in TaskIds |-> NoTask]
    /\ fs = {}
    /\ catalog = <<>>
    /\ audit = <<>>
    /\ clock = 1
    /\ status = IdleStatus
    /\ geo = GeoInit
    /\ watcher = WatcherInit
    /\ app = AppInit
    /\ rate = RateInit
    /\ pure = NoCall

NextFault ==
    \/ \E m \in Mounts :
          /\ \A t \in TaskIds : ~Running(t)
          /\ Rescan(m)
    \/ \E t \in TaskIds : RunStep(t)
    \/ \E t \in TaskIds : FaultStep(t)

SpecFault == InitFault /\ [][NextFault]_vars

\* The process is killed between the Sync and the Rename of a copy and is
\* started again: goroutines, queue, processing set and Status are lost,
\* the database and the library stay.
Crash ==
    /\ \E t \in TaskIds : tasks[t].pc = "rename"
    /\ tasks' = [t \in TaskIds |-> NoTask]
    /\ jobs' = <<>>
    /\ processing' = {}
    /\ status' = IdleStatus
    /\ rate' = resetRateSamples(rate)
    /\ UNCHANGED <<geo, watcher, app, pure, tree, settings, dropLogged, fs,
                   catalog, audit, clock>>

InitCrash ==
    /\ tree \in {(MountA :> a) @@ (MountB :> <<>>) :
                    a \in {<<Img1>>, <<Img1, Img2>>, <<Img2, Copy1>>}}
    /\ settings = [base_storage_dir |-> Lib1, excluded_mounts |-> <<>>]
    /\ jobs = <<>>
    /\ processing = {}
    /\ dropLogged = FALSE
    /\ tasks = [t \in TaskIds |-> NoTask]
    /\ fs = {}
    /\ catalog = <<>>
    /\ audit = <<>>
    /\ clock = 1
    /\ status = IdleStatus
    /\ geo = GeoInit
    /\ watcher = WatcherInit
    /\ app = AppInit
    /\ rate = RateInit
    /\ pure = NoCall

NextCrash ==
    \/ /\ \A t \in TaskIds : ~Running(t)
       /\ Rescan(MountA)
    \/ \E t \in TaskIds : RunStep(t)
    \/ Crash

SpecCrash == InitCrash /\ [][NextCrash]_vars

\* ------------------------------------------------------------ geocode
\* what the geocoder actions leave alone
ingestVars == <<tree, settings, jobs, processing, dropLogged, tasks, fs,
                catalog, audit, clock, status, watcher, app, pure,
                rate>>

Caller(c) == geo.callers[c]

\* a goroutine calls Reverse(lat, lon): the geo_key is computed
ReverseCall(c, lat, lon) ==
    /\ Caller(c).pc = "idle"
    /\ geo.started < MaxCalls
    /\ geo' = [geo EXCEPT !.started = @ + 1,
                          !.callers[c] =
                              [NoCaller EXCEPT !.pc = "cache", !.lat = lat,
                                               !.lon = lon,
                                               !.key = GeoKey(lat, lon)]]
    /\ UNCHANGED ingestVars

\* GetGeocodeCache: a hit returns the cached location; a query that fails
\* (its context is cancelled) counts as a miss
CacheLookup(c) ==
    /\ Caller(c).pc = "cache"
    /\ geo' = IF /\ Caller(c).ctx = "live"
                 /\ Caller(c).key \in DOMAIN geo.cache
              THEN [geo EXCEPT !.callers[c].pc = "return",
                               !.callers[c].loc = geo.cache[Caller(c).key]]
              ELSE [geo EXCEPT !.callers[c].pc = "inflight"]
    /\ UNCHANGED ingestVars

\* under inflightMu: join the call of the key, or register a new one
InflightCheck(c) ==
    /\ Caller(c).pc = "inflight"
    /\ geo' = IF Caller(c).key \in DOMAIN geo.inflight
              THEN [geo EXCEPT !.callers[c].pc = "join",
                               !.callers[c].call =
                                   geo.inflight[Caller(c).key]]
              ELSE [geo EXCEPT
                      !.calls = Append(@, [done |-> FALSE, loc |-> NoLoc,
                                           err |-> "nil", origin |-> c,
                                           aborted |-> FALSE]),
                      !.inflight = (Caller(c).key :> (Len(geo.calls) + 1))
                                   @@ @,
                      !.callers[c].call = Len(geo.calls) + 1,
                      !.callers[c].pc = "rate"]
    /\ UNCHANGED ingestVars

\* nextAt = time.Now().Add(minInterval), and the request goes out; with
\* a cancelled context client.Do returns the context's error and sends
\* nothing
SendRequest(c) ==
    IF Caller(c).ctx = "live"
    THEN [geo EXCEPT !.nextAt = geo.now + MinInterval,
                     !.reqs = Append(@, [at |-> geo.now,
                                         key |-> Caller(c).key,
                                         caller |-> c,
                                         call |-> Caller(c).call]),
                     !.callers[c].pc = "response"]
    ELSE [geo EXCEPT !.nextAt = geo.now + MinInterval,
                     !.callers[c].err = "canceled",
                     !.callers[c].pc = "publish"]

\* reverseNominatim under rateMu: a caller that is early starts a timer
\* for time.Until(nextAt) and releases the mutex
RateLimit(c) ==
    /\ Caller(c).pc = "rate"
    /\ geo' = IF geo.nextAt > geo.now
              THEN [geo EXCEPT !.callers[c].pc = "sleep",
                               !.callers[c].wake = geo.nextAt]
              ELSE SendRequest(c)
    /\ UNCHANGED ingestVars

\* the timer fires: the caller takes rateMu again and sets nextAt
TimerFire(c) ==
    /\ Caller(c).pc = "sleep"
    /\ geo.now >= Caller(c).wake
    /\ geo' = SendRequest(c)
    /\ UNCHANGED ingestVars

\* the timer select takes ctx.Done(): reverseNominatim returns ctx.Err()
\* before nextAt is touched and before a request is built
AbortWait(c) ==
    /\ Caller(c).pc = "sleep"
    /\ Caller(c).ctx = "cancelled"
    /\ geo' = [geo EXCEPT !.calls[Caller(c).call].aborted = TRUE,
                          !.callers[c].err = "canceled",
                          !.callers[c].pc = "publish"]
    /\ UNCHANGED ingestVars

\* the response is decoded and UpsertGeocodeCache stores it (a failed
\* upsert is not fatal)
Response(c) ==
    LET loc == Nominatim(Caller(c).lat, Caller(c).lon)
    IN  /\ Caller(c).pc = "response"
        /\ geo' = [geo EXCEPT !.cache = IF Caller(c).ctx = "live"
                                        THEN (Caller(c).key :> loc) @@ @
                                        ELSE @,
                              !.callers[c].loc = loc,
                              !.callers[c].pc = "publish"]
        /\ UNCHANGED ingestVars

\* a publish that closes call.done only for a call that succeeded
PublishSkipsOnError(c) ==
    /\ Caller(c).pc = "publish"
    /\ geo' = [geo EXCEPT
                 !.calls[Caller(c).call] =
                     [@ EXCEPT !.done = (Caller(c).err = "nil"),
                               !.loc = Caller(c).loc,
                               !.err = Caller(c).err],
                 !.inflight = [k \in DOMAIN @ \ {Caller(c).key} |-> @[k]],
                 !.callers[c].pc = "return"]
    /\ UNCHANGED ingestVars

\* call.loc is set, call.done is closed and the key leaves the map
Publish(c) ==
    /\ Caller(c).pc = "publish"
    /\ geo' = [geo EXCEPT
                 !.calls[Caller(c).call] =
                     [@ EXCEPT !.done = TRUE, !.loc = Caller(c).loc,
                               !.err = Caller(c).err],
                 !.inflight = [k \in DOMAIN @ \ {Caller(c).key} |-> @[k]],
                 !.callers[c].pc = "return"]
    /\ UNCHANGED ingestVars

\* a joined caller that takes the location and leaves the error behind
JoinDropsError(c) ==
    /\ Caller(c).pc = "join"
    /\ geo.calls[Caller(c).call].done
    /\ geo' = [geo EXCEPT !.callers[c].pc = "return",
                          !.callers[c].loc = geo.calls[Caller(c).call].loc]
    /\ UNCHANGED ingestVars

\* a joined caller receives from call.done
Join(c) ==
    /\ Caller(c).pc = "join"
    /\ geo.calls[Caller(c).call].done
    /\ geo' = [geo EXCEPT !.callers[c].pc = "return",
                          !.callers[c].loc = geo.calls[Caller(c).call].loc,
                          !.callers[c].err = geo.calls[Caller(c).call].err]
    /\ UNCHANGED ingestVars

\* a joined caller's select takes its own ctx.Done()
AbortJoin(c) ==
    /\ Caller(c).pc = "join"
    /\ Caller(c).ctx = "cancelled"
    /\ geo' = [geo EXCEPT !.callers[c].pc = "return",
                          !.callers[c].err = "canceled"]
    /\ UNCHANGED ingestVars

\* the request fails in flight because the context is cancelled
FailResponse(c) ==
    /\ Caller(c).pc = "response"
    /\ Caller(c).ctx = "cancelled"
    /\ geo' = [geo EXCEPT !.callers[c].err = "canceled",
                          !.callers[c].pc = "publish"]
    /\ UNCHANGED ingestVars

\* the owner of the context cancels it while Reverse is running
CancelCtx(c) ==
    /\ Caller(c).pc \notin {"idle", "return"}
    /\ Caller(c).ctx = "live"
    /\ geo' = [geo EXCEPT !.callers[c].ctx = "cancelled"]
    /\ UNCHANGED ingestVars

\* Reverse returns the location
Return(c) ==
    /\ Caller(c).pc = "return"
    /\ geo' = [geo EXCEPT !.returned = IF Caller(c).err = "nil"
                                           THEN @ \cup {Caller(c).loc}
                                           ELSE @,
                          !.callers[c] = NoCaller]
    /\ UNCHANGED ingestVars

\* time passes
Tick ==
    /\ geo.now < MaxTime
    /\ geo' = [geo EXCEPT !.now = @ + MinInterval \div 2]
    /\ UNCHANGED ingestVars

InitGeo ==
    /\ Init
    /\ settings.base_storage_dir = Lib1
    /\ tree[MountA] = <<Img1, Notes>>

NextGeo ==
    \/ \E c \in GeoCallers : \E p \in GeoPoints : ReverseCall(c, p[1], p[2])
    \/ \E c \in GeoCallers : CacheLookup(c)
    \/ \E c \in GeoCallers : InflightCheck(c)
    \/ \E c \in GeoCallers : RateLimit(c)
    \/ \E c \in GeoCallers : TimerFire(c)
    \/ \E c \in GeoCallers : Response(c)
    \/ \E c \in GeoCallers : Publish(c)
    \/ \E c \in GeoCallers : Join(c)
    \/ \E c \in GeoCallers : Return(c)
    \/ Tick

SpecGeo == InitGeo /\ [][NextGeo]_vars

\* Reverse with contexts that can be cancelled; the scheduler runs every
\* goroutine that can take a step
CallerStep(c) ==
    \/ CacheLookup(c)
    \/ InflightCheck(c)
    \/ RateLimit(c)
    \/ TimerFire(c)
    \/ AbortWait(c)
    \/ Response(c)
    \/ FailResponse(c)
    \/ Publish(c)
    \/ Join(c)
    \/ AbortJoin(c)
    \/ Return(c)

\* the geocoder after caller 1 has resolved a first point at instant 0:
\* its key is cached and nextAt is one interval ahead
FirstPoint == <<481301, 113456>>

GeoAfterFirst ==
    LET loc == Nominatim(FirstPoint[1], FirstPoint[2])
    IN  [GeoInit EXCEPT
           !.nextAt = MinInterval,
           !.cache = (loc.GeocodeKey :> loc),
           !.calls = <<[done |-> TRUE, loc |-> loc, err |-> "nil",
                        origin |-> 1, aborted |-> FALSE]>>,
           !.reqs = <<[at |-> 0, key |-> loc.GeocodeKey, caller |-> 1,
                       call |-> 1]>>,
           !.started = 1,
           !.returned = {loc}]

InitCancel ==
    /\ tree = (MountA :> <<Img1, Notes>>) @@ (MountB :> <<Img1>>)
    /\ settings = [base_storage_dir |-> Lib1, excluded_mounts |-> <<>>]
    /\ jobs = <<>>
    /\ processing = {}
    /\ dropLogged = FALSE
    /\ tasks = [t \in TaskIds |-> NoTask]
    /\ fs = {}
    /\ catalog = <<>>
    /\ audit = <<>>
    /\ clock = 1
    /\ status = IdleStatus
    /\ geo = GeoAfterFirst
    /\ watcher = WatcherInit
    /\ app = AppInit
    /\ rate = RateInit
    /\ pure = NoCall

\* the two points of one other geo_key
CancelPoints == {<<481234, 113456>>, <<481231, 113458>>}

NextCancel ==
    \/ \E c \in GeoCallers :
          \E p \in CancelPoints : ReverseCall(c, p[1], p[2])
    \/ \E c \in GeoCallers : CallerStep(c)
    \/ \E c \in GeoCallers : CancelCtx(c)
    \/ Tick

SpecCancel ==
    /\ InitCancel
    /\ [][NextCancel]_vars
    /\ \A c \in GeoCallers : WF_vars(CallerStep(c))

\* the same, and time passes: a timer that was started fires
SpecJoin ==
    /\ InitCancel
    /\ [][NextCancel]_vars
    /\ \A c \in GeoCallers : WF_vars(CallerStep(c))
    /\ WF_vars(Tick)

\* ------------------------------------------------------------ usb.Watcher
\* the volumes that can appear under the mount roots
Volumes == {MountA, MountSibling}

\* discoverMounts: the directories under the roots, in ReadDir order
discoverMounts(mounted) ==
    IF mounted = {} THEN <<>>
    ELSE IF mounted = {MountA} THEN <<MountA>>
    ELSE IF mounted = {MountSibling} THEN <<MountSibling>>
    ELSE <<MountA, MountSibling>>

\* the mounts of an enumeration whose key is not in seen, in order
NewMounts(mounts, seen) ==
    SelectSeq(mounts, LAMBDA m : PathKey(m) \notin seen)

RECURSIVE EnqueueAll(_, _)
EnqueueAll(q, mounts) ==
    IF mounts = <<>> THEN q
    ELSE EnqueueAll(Enqueue(q, Head(mounts)), Tail(mounts))

Keys(mounts) == {PathKey(mounts[i]) : i \in 1..Len(mounts)}

\* a volume is plugged in or removed
Plug(m) ==
    /\ m \notin watcher.mounted
    /\ watcher' = [watcher EXCEPT !.mounted = @ \cup {m}]
    /\ UNCHANGED <<geo, app, pure, rate, tree, settings, jobs, processing, dropLogged,
                   tasks, fs, catalog, audit, clock, status>>

Unplug(m) ==
    /\ m \in watcher.mounted
    /\ watcher' = [watcher EXCEPT !.mounted = @ \ {m}]
    /\ UNCHANGED <<geo, app, pure, rate, tree, settings, jobs, processing, dropLogged,
                   tasks, fs, catalog, audit, clock, status>>

\* a tick that never forgets a key
tickNoPrune ==
    LET mounts == discoverMounts(watcher.mounted)
        fresh  == NewMounts(mounts, watcher.seen)
    IN  /\ watcher.ticks < MaxTicks
        /\ watcher' = [watcher EXCEPT
              !.seen = @ \cup Keys(mounts),
              !.last = Keys(mounts),
              !.ticks = @ + 1,
              !.calls = @ \o [i \in 1..Len(fresh) |->
                                [tick |-> watcher.ticks + 1,
                                 mount |-> fresh[i]]]]
        /\ jobs' = EnqueueAll(jobs, fresh)
        /\ dropLogged' = (dropLogged \/ Len(jobs) + Len(fresh) > QueueCap)
        /\ UNCHANGED <<geo, app, pure, rate, tree, settings, processing, tasks, fs,
                       catalog, audit, clock, status>>

\* a tick that remembers a key only when the queue took its event
tickSeenIfQueued ==
    LET mounts == discoverMounts(watcher.mounted)
        fresh  == NewMounts(mounts, watcher.seen)
        taken  == {PathKey(fresh[i]) :
                     i \in {j \in 1..Len(fresh) : Len(jobs) + j <= QueueCap}}
    IN  /\ watcher.ticks < MaxTicks
        /\ watcher' = [watcher EXCEPT
              !.seen = ((@ \cap Keys(mounts)) \cup taken),
              !.last = Keys(mounts),
              !.ticks = @ + 1,
              !.calls = @ \o [i \in 1..Len(fresh) |->
                                [tick |-> watcher.ticks + 1,
                                 mount |-> fresh[i]]]]
        /\ jobs' = EnqueueAll(jobs, fresh)
        /\ dropLogged' = (dropLogged \/ Len(jobs) + Len(fresh) > QueueCap)
        /\ UNCHANGED <<geo, app, pure, rate, tree, settings, processing, tasks, fs,
                       catalog, audit, clock, status>>

\* Watcher.tick: onNew (QueueMount) for every mount whose key is not in
\* seen, then the keys that are not in this enumeration are deleted
tick ==
    LET mounts == discoverMounts(watcher.mounted)
        fresh  == NewMounts(mounts, watcher.seen)
    IN  /\ watcher.ticks < MaxTicks
        /\ watcher' = [watcher EXCEPT
              !.seen = (@ \cup Keys(mounts)) \ (@ \ Keys(mounts)),
              !.last = Keys(mounts),
              !.ticks = @ + 1,
              !.calls = @ \o [i \in 1..Len(fresh) |->
                                [tick |-> watcher.ticks + 1,
                                 mount |-> fresh[i]]]]
        /\ jobs' = EnqueueAll(jobs, fresh)
        /\ dropLogged' = (dropLogged \/ Len(jobs) + Len(fresh) > QueueCap)
        /\ UNCHANGED <<geo, app, pure, rate, tree, settings, processing, tasks, fs,
                       catalog, audit, clock, status>>

InitWatch ==
    /\ Init
    /\ settings.base_storage_dir = Lib1
    /\ tree[MountA] = <<Img1, Notes>>

NextWatch ==
    \/ \E m \in Volumes : Plug(m)
    \/ \E m \in Volumes : Unplug(m)
    \/ tick

SpecWatch == InitWatch /\ [][NextWatch]_vars

\* ------------------------------------------------- ingest and context
\* what the environment decides about one call of Reverse from ingestFile
GeoOutcomes == {"ok", "disabled", "error", "cancelled"}

\* the record after Reverse: the location fields are set only when Reverse
\* returned a location and no error
AfterReverse(rec, outcome, loc) ==
    [rec EXCEPT !.pc = "build", !.tried = outcome, !.loc = loc]

\* the context of the run is cancelled while file idx is in progress
Cancelled(rec) ==
    IF rec.ctx = "cancelled" THEN rec
    ELSE [rec EXCEPT !.ctx = "cancelled", !.cancelIdx = rec.idx]

\* an ingestFile for which a failed Reverse is an error of the file
GeocodeFatal(t) ==
    LET rec == tasks[t]
    IN  /\ rec.pc = "geocode"
        /\ \E outcome \in GeoOutcomes \ {"ok"} :
              tasks' = [tasks EXCEPT ![t] =
                  [rec EXCEPT !.pc = "file_end", !.tried = outcome,
                              !.result.Errors = @ + 1]]
        /\ UNCHANGED <<sideVars, tree, settings, jobs, processing, dropLogged,
                       fs, catalog, audit, clock, status>>

\* ingestFile calls Reverse for a record with a valid GPS position; the
\* call runs to its end in one step: cache hit, or the wait for nextAt and
\* the request
Geocode(t) ==
    LET rec  == tasks[t]
        f    == CurFile(rec)
        key  == GeoKey(f.gps[1], f.gps[2])
        loc  == Nominatim(f.gps[1], f.gps[2])
        at   == IF geo.nextAt > geo.now THEN geo.nextAt ELSE geo.now
        sent == [geo EXCEPT !.now = at, !.nextAt = at + MinInterval,
                            !.reqs = Append(@, [at |-> at, key |-> key,
                                                caller |-> 0, call |-> 0])]
        hit  == rec.ctx = "live" /\ key \in DOMAIN geo.cache
    IN  /\ rec.pc = "geocode"
        /\ \E outcome \in GeoOutcomes :
              \/ /\ outcome = "disabled"
                 /\ geo' = geo
                 /\ tasks' = [tasks EXCEPT ![t] = AfterReverse(rec, outcome, NoLoc)]
              \/ /\ outcome = "ok"
                 /\ hit
                 /\ geo' = geo
                 /\ tasks' = [tasks EXCEPT
                                 ![t] = AfterReverse(rec, outcome,
                                                     geo.cache[key])]
              \/ /\ outcome = "ok"
                 /\ ~hit
                 /\ rec.ctx = "live"
                 /\ Len(geo.reqs) < MaxCalls
                 /\ geo' = [sent EXCEPT !.cache = (key :> loc) @@ @]
                 /\ tasks' = [tasks EXCEPT ![t] = AfterReverse(rec, outcome, loc)]
              \/ /\ outcome = "error"
                 /\ ~hit
                 /\ rec.ctx = "live"
                 /\ Len(geo.reqs) < MaxCalls
                 /\ geo' = sent
                 /\ tasks' = [tasks EXCEPT ![t] = AfterReverse(rec, outcome, NoLoc)]
              \/ /\ outcome = "cancelled"
                 /\ ~hit
                 /\ geo' = IF geo.nextAt > geo.now
                           THEN geo
                           ELSE [geo EXCEPT !.nextAt = geo.now + MinInterval]
                 /\ tasks' = [tasks EXCEPT ![t] =
                        AfterReverse(Cancelled(rec), outcome, NoLoc)]
        /\ UNCHANGED <<watcher, app, pure, rate, tree, settings, jobs, processing,
                       dropLogged, fs, catalog, audit, clock, status>>

\* the owner of the context (the HTTP request of a rescan, the process for
\* a dispatched run) cancels it
CancelRun(t) ==
    /\ tasks[t].kind \in {"queue", "rescan"}
    /\ tasks[t].pc \notin {"release", "done"}
    /\ tasks[t].ctx = "live"
    /\ tasks' = [tasks EXCEPT ![t] = Cancelled(tasks[t])]
    /\ UNCHANGED <<sideVars, tree, settings, jobs, processing, dropLogged, fs,
                   catalog, audit, clock, status>>

\* GetSetting fails: ProcessMount returns the error
PreflightCancelled(t) ==
    /\ tasks[t].pc = "preflight"
    /\ tasks[t].ctx = "cancelled"
    /\ tasks' = [tasks EXCEPT ![t].pc = AfterReturn(tasks[t]),
                              ![t].ret = "error"]
    /\ UNCHANGED <<sideVars, tree, settings, jobs, processing, dropLogged, fs,
                   catalog, audit, clock, status>>

\* ingestFile with a cancelled context: Stat, the hashes and the metadata
\* are computed, then MediaExists fails and the callback counts an error
ProbeCancelled(t) ==
    LET rec == tasks[t]
    IN  /\ rec.pc = "file"
        /\ CurFile(rec).size # 0
        /\ rec.ctx = "cancelled"
        /\ tasks' = [tasks EXCEPT ![t] =
              [rec EXCEPT !.pc = "file_end", !.result.Errors = @ + 1,
                          !.lateHash = @ \/ rec.idx > rec.cancelIdx]]
        /\ UNCHANGED <<sideVars, tree, settings, jobs, processing, dropLogged,
                       fs, catalog, audit, clock, status>>

\* InsertMedia fails with the context's error: os.Remove(destPath), and
\* the callback counts an error
InsertCancelled(t) ==
    LET rec == tasks[t]
    IN  /\ rec.pc = "insert"
        /\ rec.ctx = "cancelled"
        /\ fs' = {f \in fs : f.path # rec.dest}
        /\ tasks' = [tasks EXCEPT ![t].pc = "file_end",
                                  ![t].result.Errors = @ + 1]
        /\ UNCHANGED <<sideVars, tree, settings, jobs, processing, dropLogged,
                       catalog, audit, clock, status>>

CtxStep(t) ==
    \/ Geocode(t)
    \/ CancelRun(t)
    \/ PreflightCancelled(t)
    \/ ProbeCancelled(t)
    \/ InsertCancelled(t)
    \/ LogCancelled(t)

\* Rescans one at a time of mounts that hold pictures with and without a
\* GPS position, with every outcome of Reverse and contexts that can be
\* cancelled at any step.
InitCtx ==
    /\ tree \in {(MountA :> a) @@ (MountB :> <<Img1>>) :
                    a \in SeqsUpTo({GeoImg, Img2, Empty}, MaxFiles)}
    /\ settings = [base_storage_dir |-> Lib1, excluded_mounts |-> <<>>]
    /\ jobs = <<>>
    /\ processing = {}
    /\ dropLogged = FALSE
    /\ tasks = [t \in TaskIds |-> NoTask]
    /\ fs = {}
    /\ catalog = <<>>
    /\ audit = <<>>
    /\ clock = 1
    /\ status = IdleStatus
    /\ geo = GeoInit
    /\ watcher = WatcherInit
    /\ app = AppInit
    /\ rate = RateInit
    /\ pure = NoCall

NextCtx ==
    \/ /\ \A t \in TaskIds : ~Running(t)
       /\ Rescan(MountA)
    \/ \E t \in TaskIds : RunStep(t)
    \/ \E t \in TaskIds : CtxStep(t)

SpecCtx == InitCtx /\ [][NextCtx]_vars

\* ------------------------------------------------- sessions and setup
\* app.now is time.Now of the HTTP handlers, in half seconds; cookies are
\* the Set-Cookie values handed out (token and Expires); revoked the
\* tokens handed out whose row handleLogout deleted; last the response of the most
\* recent request to an endpoint behind withAuth, seq telling two equal
\* responses apart

\* NewSessionToken: the n-th draw of 32 random bytes
Token(n) == <<"token", n>>

Tokens == {Token(n) : n \in 1..MaxTasks}

\* TokenHash: the hex SHA-256 of the token
TokenHash(token) == Sha256Hex(token)

\* Format(time.RFC3339) and time.Parse of it: whole seconds
RFC3339(at) == (at \div 2) * 2

Usernames == {"alice", "bob"}

Range(s) == {s[i] : i \in 1..Len(s)}

\* the id CreateUser returned for a username
UserID(users, username) == CHOOSE i \in 1..Len(users) : users[i] = username

webUnchanged == <<geo, watcher, pure, rate, tree, jobs, processing, dropLogged, fs,
                  catalog, audit, clock, status>>

\* POST /api/setup arrives: the handler starts
Setup(username, base) ==
    /\ FreeTasks # {}
    /\ LET t == CHOOSE x \in FreeTasks : \A y \in FreeTasks : x <= y
       IN  tasks' = [tasks EXCEPT ![t] =
                       [NoTask EXCEPT !.kind = "setup", !.pc = "has_users",
                                      !.actor = username, !.base = base]]
    /\ UNCHANGED <<webUnchanged, settings, app>>

\* handleSetup up to the validation of the body: 409 once HasUsers counts
\* a row, 400 for a blank base_storage_dir
HasUsers(t) ==
    LET rec == tasks[t]
    IN  /\ rec.kind = "setup"
        /\ rec.pc = "has_users"
        /\ tasks' = [tasks EXCEPT
                        ![t].pc = IF Len(app.users) > 0 \/
                                     TrimSpace(rec.base) = <<>>
                                  THEN "done" ELSE "create_user",
                        ![t].ret = IF Len(app.users) > 0 THEN "409"
                                   ELSE IF TrimSpace(rec.base) = <<>>
                                        THEN "400" ELSE ""]
        /\ UNCHANGED <<webUnchanged, settings, app>>

\* Store.CreateUser: the INSERT fails on the UNIQUE username, and the
\* handler answers 500
CreateUser(t) ==
    LET rec == tasks[t]
    IN  /\ rec.kind = "setup"
        /\ rec.pc = "create_user"
        /\ IF rec.actor \in Range(app.users)
           THEN /\ tasks' = [tasks EXCEPT ![t].pc = "done", ![t].ret = "500"]
                /\ app' = app
           ELSE /\ app' = [app EXCEPT !.users = Append(@, rec.actor)]
                /\ tasks' = [tasks EXCEPT ![t].pc = "set_setting"]
        /\ UNCHANGED <<webUnchanged, settings>>

\* SetSetting(baseStorageKey), then the setup_completed audit entry
SetupSetting(t) ==
    LET rec == tasks[t]
    IN  /\ rec.kind = "setup"
        /\ rec.pc = "set_setting"
        /\ settings' = [settings EXCEPT !.base_storage_dir = rec.base]
        /\ tasks' = [tasks EXCEPT ![t] =
                       BeginLog(rec, "setup_completed",
                                [storage_dir |-> rec.base], 0,
                                "issue_session")]
        /\ UNCHANGED <<webUnchanged, app>>

\* issueSession: a fresh token, the row keyed by its hash, the cookie
\* that carries the token itself
issueSession(a, username) ==
    LET token   == Token(Cardinality(a.cookies) + 1)
        expires == a.now + SessionTTL
    IN  [a EXCEPT
           !.sessions = @ \cup {[token_hash |-> TokenHash(token),
                                 user_id |-> UserID(a.users, username),
                                 expires_at |-> RFC3339(expires)]},
           !.cookies = @ \cup {[token |-> token, expires |-> expires]}]

\* the end of handleSetup: the session, and 201
SetupSession(t) ==
    LET rec == tasks[t]
    IN  /\ rec.kind = "setup"
        /\ rec.pc = "issue_session"
        /\ app' = issueSession(app, rec.actor)
        /\ tasks' = [tasks EXCEPT ![t].pc = "done", ![t].ret = "201"]
        /\ UNCHANGED <<webUnchanged, settings>>

\* DELETE FROM sessions WHERE expires_at <= now, both as RFC3339 strings
DeleteExpiredSessions(a) ==
    [a EXCEPT !.sessions = {s \in @ : s.expires_at > RFC3339(a.now)}]

\* POST /api/login with the password of the user, if there is one:
\* DeleteExpiredSessions, GetUserByUsername, 401 or the session
Login(username) ==
    /\ FreeTasks # {}
    /\ LET t   == CHOOSE x \in FreeTasks : \A y \in FreeTasks : x <= y
           a   == DeleteExpiredSessions(app)
           rec == [NoTask EXCEPT !.kind = "login", !.actor = username]
       IN  IF username \in Range(app.users)
           THEN /\ app' = issueSession(a, username)
                /\ tasks' = [tasks EXCEPT ![t] =
                               BeginLog(rec, "login", <<>>, 0, "done")]
           ELSE /\ app' = a
                /\ tasks' = [tasks EXCEPT ![t] =
                               [rec EXCEPT !.pc = "done", !.ret = "401"]]
    /\ UNCHANGED <<webUnchanged, settings>>

\* POST /api/logout: DeleteSession(TokenHash(cookie.Value))
Logout(cookie) ==
    /\ app' = [app EXCEPT
                 !.sessions = {s \in @ : s.token_hash # TokenHash(cookie)},
                 !.revoked = @ \cup {k.token : k \in
                                        {x \in app.cookies :
                                            x.token = cookie}}]
    /\ UNCHANGED <<webUnchanged, settings, tasks>>

\* a LookupSession that does not look at expires_at
LookupSessionNoExpiry(a, tokenHash) ==
    {s \in a.sessions : s.token_hash = tokenHash}

\* Store.LookupSession: no row, or a row that time.Now is After, is no
\* session, and the row that expired is deleted
LookupSession(a, tokenHash) ==
    {s \in a.sessions : s.token_hash = tokenHash /\ ~(a.now > s.expires_at)}

\* a request to an endpoint behind withAuth: authFromRequest, then 401 or
\* the handler
AuthedRequest(cookie) ==
    LET tokenHash == TokenHash(cookie)
        found     == LookupSession(app, tokenHash)
    IN  /\ app' = [app EXCEPT
                     !.sessions = {s \in @ : s.token_hash # tokenHash}
                                     \cup found,
                     !.last = [cookie |-> cookie,
                               status |-> IF found = {} THEN 401 ELSE 200,
                               seq |-> 1 - app.last.seq]]
        /\ UNCHANGED <<webUnchanged, settings, tasks>>

\* sessionCleanupWorker's tick
SessionCleanup ==
    /\ app' = DeleteExpiredSessions(app)
    /\ app' # app
    /\ UNCHANGED <<webUnchanged, settings, tasks>>

\* half a second passes
AppTick ==
    /\ app.now < MaxNow
    /\ app' = [app EXCEPT !.now = @ + 1]
    /\ UNCHANGED <<webUnchanged, settings, tasks>>

WebStep(t) ==
    \/ HasUsers(t)
    \/ CreateUser(t)
    \/ SetupSetting(t)
    \/ SetupSession(t)
    \/ LogRead(t)
    \/ LogInsert(t)

\* the cookie values a client can send: the tokens, and the hash of a
\* token as the database shows it
Cookies == Tokens \cup {TokenHash(Token(1))}

\* A new installation: setup and login requests, requests with a cookie,
\* logout and the passing of time, arbitrarily interleaved.
InitWeb ==
    /\ tree = (MountA :> <<>>) @@ (MountB :> <<>>)
    /\ settings = [base_storage_dir |-> Unset, excluded_mounts |-> <<>>]
    /\ jobs = <<>>
    /\ processing = {}
    /\ dropLogged = FALSE
    /\ tasks = [t \in TaskIds |-> NoTask]
    /\ fs = {}
    /\ catalog = <<>>
    /\ audit = <<>>
    /\ clock = 1
    /\ status = IdleStatus
    /\ geo = GeoInit
    /\ watcher = WatcherInit
    /\ app = AppInit
    /\ rate = RateInit
    /\ pure = NoCall

NextWeb ==
    \/ \E u \in Usernames, b \in StorageDirs \cup {Blank} : Setup(u, b)
    \/ \E u \in Usernames : Login(u)
    \/ \E c \in Cookies : Logout(c)
    \/ \E c \in Cookies : AuthedRequest(c)
    \/ SessionCleanup
    \/ AppTick
    \/ \E t \in TaskIds : WebStep(t)

SpecWeb == InitWeb /\ [][NextWeb]_vars

\* ------------------------------------------------- POST /api/media/delete
\* normalizeIDs: the positive ids in the order of their first occurrence,
\* at most max of them
RECURSIVE normalizeFrom(_, _, _, _)
normalizeFrom(ids, i, out, max) ==
    IF i > Len(ids) \/ Len(out) >= max
    THEN out
    ELSE normalizeFrom(ids, i + 1,
                       IF ids[i] <= 0 \/ ids[i] \in Range(out)
                       THEN out ELSE Append(out, ids[i]),
                       max)

normalizeIDs(ids, max) == normalizeFrom(ids, 1, <<>>, max)

\* ListMediaByIDs: the rows whose id is asked for
ListMediaByIDs(rows, ids) ==
    SelectSeq(rows, LAMBDA r : r.id \in Range(ids))

\* DeleteMediaByID
DeleteMediaByID(rows, id) == SelectSeq(rows, LAMBDA r : r.id # id)

\* recordByID[id]
HasRecord(records, id) == \E i \in 1..Len(records) : records[i].id = id

RecordByID(records, id) ==
    records[CHOOSE i \in 1..Len(records) : records[i].id = id]

\* the request arrives behind withAuth: normalizeIDs, and 400 when no id
\* is left
Delete(ids) ==
    /\ FreeTasks # {}
    /\ LET t   == CHOOSE x \in FreeTasks : \A y \in FreeTasks : x <= y
           n   == normalizeIDs(ids, MaxDeleteIDs)
           rec == [NoTask EXCEPT !.kind = "delete", !.actor = "admin",
                                 !.del.ids = n]
       IN  tasks' = [tasks EXCEPT ![t] =
                       IF Len(n) = 0
                       THEN [rec EXCEPT !.pc = "done", !.ret = "400"]
                       ELSE [rec EXCEPT !.pc = "list"]]
    /\ UNCHANGED <<sideVars, tree, settings, jobs, processing, dropLogged,
                   fs, catalog, audit, clock, status>>

\* ListMediaByIDs into recordByID
DeleteList(t) ==
    LET rec == tasks[t]
    IN  /\ rec.kind = "delete"
        /\ rec.pc = "list"
        /\ tasks' = [tasks EXCEPT
                        ![t].pc = "base",
                        ![t].del.records =
                            ListMediaByIDs(catalog, rec.del.ids)]
        /\ UNCHANGED <<sideVars, tree, settings, jobs, processing,
                       dropLogged, fs, catalog, audit, clock, status>>

\* GetSetting(base_storage_dir), trimmed and cleaned: "." without a value
DeleteBase(t) ==
    LET rec == tasks[t]
        v   == settings.base_storage_dir
    IN  /\ rec.kind = "delete"
        /\ rec.pc = "base"
        /\ tasks' = [tasks EXCEPT
                        ![t].pc = "id",
                        ![t].idx = 1,
                        ![t].base = IF v = Unset \/ TrimSpace(v) = <<>>
                                    THEN <<".">> ELSE v]
        /\ UNCHANGED <<sideVars, tree, settings, jobs, processing,
                       dropLogged, fs, catalog, audit, clock, status>>

\* an id is counted: outcome is what it is counted as
Counted(rec, id, outcome) ==
    [rec EXCEPT !.idx = @ + 1,
                !.del.done = Append(@, [id |-> id, as |-> outcome]),
                !.del.deleted = IF outcome = "deleted" THEN @ + 1 ELSE @,
                !.del.not_found = IF outcome = "not_found" THEN @ + 1 ELSE @,
                !.del.failed = IF outcome = "failed" THEN @ + 1 ELSE @]

\* a loop that removes the file without asking IsPathWithin
DeleteIDNoPolicy(t) ==
    LET rec == tasks[t]
        id  == rec.del.ids[rec.idx]
    IN  /\ rec.kind = "delete"
        /\ rec.pc = "id"
        /\ rec.idx <= Len(rec.del.ids)
        /\ IF ~HasRecord(rec.del.records, id)
           THEN /\ tasks' = [tasks EXCEPT ![t] =
                               Counted(rec, id, "not_found")]
                /\ fs' = fs
           ELSE /\ fs' = {f \in fs :
                             f.path # RecordByID(rec.del.records,
                                                 id).dest_path}
                /\ tasks' = [tasks EXCEPT ![t].pc = "row"]
        /\ UNCHANGED <<sideVars, tree, settings, jobs, processing,
                       dropLogged, catalog, audit, clock, status>>

\* one iteration up to os.Remove: not_found without a record, failed for
\* a destination outside the base, else the file is removed (a file that
\* does not exist is no error)
DeleteID(t) ==
    LET rec == tasks[t]
        id  == rec.del.ids[rec.idx]
    IN  /\ rec.kind = "delete"
        /\ rec.pc = "id"
        /\ rec.idx <= Len(rec.del.ids)
        /\ IF ~HasRecord(rec.del.records, id)
           THEN /\ tasks' = [tasks EXCEPT ![t] =
                               Counted(rec, id, "not_found")]
                /\ fs' = fs
           ELSE IF /\ rec.base # <<".">>
                   /\ ~IsPathWithin(RecordByID(rec.del.records,
                                               id).dest_path, rec.base)
           THEN /\ tasks' = [tasks EXCEPT ![t] =
                               Counted(rec, id, "failed")]
                /\ fs' = fs
           ELSE /\ fs' = {f \in fs :
                             f.path # RecordByID(rec.del.records,
                                                 id).dest_path}
                /\ tasks' = [tasks EXCEPT ![t].pc = "row"]
        /\ UNCHANGED <<sideVars, tree, settings, jobs, processing,
                       dropLogged, catalog, audit, clock, status>>

\* DeleteMediaByID, cleanupEmptyParents, deleted++
DeleteRow(t) ==
    LET rec == tasks[t]
        id  == rec.del.ids[rec.idx]
    IN  /\ rec.kind = "delete"
        /\ rec.pc = "row"
        /\ catalog' = DeleteMediaByID(catalog, id)
        /\ tasks' = [tasks EXCEPT ![t] =
                       [Counted(rec, id, "deleted") EXCEPT !.pc = "id"]]
        /\ UNCHANGED <<sideVars, tree, settings, jobs, processing,
                       dropLogged, fs, audit, clock, status>>

\* os.Remove or DeleteMediaByID returns an error: failed++
DeleteFails(t) ==
    LET rec == tasks[t]
        id  == rec.del.ids[rec.idx]
    IN  /\ rec.kind = "delete"
        /\ \/ rec.pc = "row"
           \/ /\ rec.pc = "id"
              /\ rec.idx <= Len(rec.del.ids)
              /\ HasRecord(rec.del.records, id)
              /\ \/ rec.base = <<".">>
                 \/ IsPathWithin(RecordByID(rec.del.records, id).dest_path,
                                 rec.base)
        /\ tasks' = [tasks EXCEPT ![t] =
                       [Counted(rec, id, "failed") EXCEPT !.pc = "id"]]
        /\ UNCHANGED <<sideVars, tree, settings, jobs, processing,
                       dropLogged, fs, catalog, audit, clock, status>>

\* after the loop: the media_deleted audit entry, and the response
DeleteDone(t) ==
    LET rec == tasks[t]
    IN  /\ rec.kind = "delete"
        /\ rec.pc = "id"
        /\ rec.idx > Len(rec.del.ids)
        /\ tasks' = [tasks EXCEPT ![t] =
                       BeginLog(rec, "media_deleted",
                                [requested |-> Len(rec.del.ids),
                                 deleted |-> rec.del.deleted,
                                 not_found |-> rec.del.not_found,
                                 failed |-> rec.del.failed], 0, "done")]
        /\ UNCHANGED <<sideVars, tree, settings, jobs, processing,
                       dropLogged, fs, catalog, audit, clock, status>>

DeleteStep(t) ==
    \/ DeleteList(t)
    \/ DeleteBase(t)
    \/ DeleteID(t)
    \/ DeleteRow(t)
    \/ DeleteFails(t)
    \/ DeleteDone(t)
    \/ LogRead(t)
    \/ LogInsert(t)

\* The library of two earlier runs: MountA was ingested under Lib1, POST
\* /api/storage moved the base to Lib2, MountB was ingested under Lib2, and
\* the daemon has started again on that database and those files.
LibraryTree == (MountA :> <<Img1>>) @@ (MountB :> <<Img2>>)

\* the locals of the run of a mount when it inserted its file
RanRec(mountPath, base) ==
    [NoTask EXCEPT !.kind = "rescan", !.mount = mountPath,
                   !.actor = "admin", !.base = base, !.idx = 1,
                   !.dest = buildDestinationPath({}, base,
                                                 LibraryTree[mountPath][1],
                                                 <<>>)]

RanA == RanRec(MountA, Lib1)
RanB == RanRec(MountB, Lib2)

LibraryFs ==
    {LibFile(RanA.dest, Img1, FALSE, 1, 1),
     LibFile(RanB.dest, Img2, FALSE, 3, 1)}

LibraryCatalog ==
    <<[MediaRecord(RanA, 1) EXCEPT !.id = 1],
      [MediaRecord(RanB, 3) EXCEPT !.id = 2]>>

\* Logger.Log for each of the calls in turn
RECURSIVE LogAll(_, _, _)
LogAll(log, calls, i) ==
    IF i > Len(calls)
    THEN log
    ELSE LogAll(Append(log,
                   AuditEntry([actor |-> "admin",
                               log |-> [action |-> calls[i][1],
                                        details |-> calls[i][2],
                                        file |-> calls[i][3],
                                        ts |-> Len(log) + 1,
                                        prev |-> LastAuditHash(log)]],
                              calls[i][4])),
                calls, i + 1)

\* what a run that copies its one file writes to the audit log
RunCalls(rec, t) ==
    <<<<"ingest_started", MountDetails(rec), 0, t>>,
      <<"file_ingested", FileDetails(rec, rec.dest), 1, t>>,
      <<"ingest_completed",
        [mount |-> rec.mount,
         result |-> [ZeroResult EXCEPT !.Scanned = 1, !.Copied = 1]],
        0, t>>>>

LibraryAudit ==
    LogAll(<<>>,
           RunCalls(RanA, 1)
           \o <<<<"storage_updated", [storage_dir |-> Lib2], 0, 2>>>>
           \o RunCalls(RanB, 3),
           1)

InitDelete ==
    /\ tree = LibraryTree
    /\ settings = [base_storage_dir |-> Lib2, excluded_mounts |-> <<>>]
    /\ jobs = <<>>
    /\ processing = {}
    /\ dropLogged = FALSE
    /\ tasks = [t \in TaskIds |-> NoTask]
    /\ fs = LibraryFs
    /\ catalog = LibraryCatalog
    /\ audit = LibraryAudit
    /\ clock = Len(LibraryAudit) + 1
    /\ status = IdleStatus
    /\ geo = GeoInit
    /\ watcher = WatcherInit
    /\ app = AppInit
    /\ rate = RateInit
    /\ pure = NoCall

\* the ids of a request: none, zero, a row, a row twice, a missing row
DeleteInputs == SeqsUpTo(0..MaxId, MaxIds)

NextDelete ==
    \/ \E ids \in DeleteInputs : Delete(ids)
    \/ \E t \in TaskIds : DeleteStep(t)

SpecDelete == InitDelete /\ [][NextDelete]_vars

\* ------------------------------------------------- paths as strings
\* A path as a caller passes it: the sequence of its characters.
Chars == {"/", ".", "a"}

Paths == SeqsUpTo(Chars, MaxPathLen)

Separator == <<"/">>

\* filepath.IsAbs on Unix
IsAbs(path) == IsPrefix(Separator, path)

\* the elements of a path between its separators, empty ones included
RECURSIVE SplitFrom(_, _, _, _)
SplitFrom(path, i, cur, out) ==
    IF i > Len(path)
    THEN Append(out, cur)
    ELSE IF path[i] = "/"
         THEN SplitFrom(path, i + 1, <<>>, Append(out, cur))
         ELSE SplitFrom(path, i + 1, Append(cur, path[i]), out)

Split(path) == SplitFrom(path, 1, <<>>, <<>>)

DotDot == <<".", ".">>

\* the loop of filepath.Clean: empty and "." elements are dropped, ".."
\* removes the element before it, is dropped at the root, and is kept at
\* the start of a relative path
RECURSIVE CleanFrom(_, _, _, _)
CleanFrom(elems, i, out, rooted) ==
    IF i > Len(elems)
    THEN out
    ELSE LET e == elems[i]
         IN  CleanFrom(elems, i + 1,
                IF e = <<>> \/ e = <<".">>
                THEN out
                ELSE IF e # DotDot
                THEN Append(out, e)
                ELSE IF out # <<>> /\ out[Len(out)] # DotDot
                THEN SubSeq(out, 1, Len(out) - 1)
                ELSE IF rooted THEN out ELSE Append(out, e),
                rooted)

RECURSIVE JoinElems(_, _)
JoinElems(elems, i) ==
    IF i > Len(elems)
    THEN <<>>
    ELSE (IF i > 1 THEN Separator ELSE <<>>) \o elems[i]
         \o JoinElems(elems, i + 1)

\* filepath.Clean
Clean(path) ==
    LET rooted == IsAbs(path)
        out    == CleanFrom(Split(path), 1, <<>>, rooted)
    IN  IF out = <<>>
        THEN (IF rooted THEN Separator ELSE <<".">>)
        ELSE (IF rooted THEN Separator ELSE <<>>) \o JoinElems(out, 1)

\* strings.HasPrefix and strings.TrimSuffix
HasPrefix(s, prefix) == IsPrefix(prefix, s)

TrimSuffix(s, suffix) ==
    IF /\ Len(suffix) <= Len(s)
       /\ SubSeq(s, Len(s) - Len(suffix) + 1, Len(s)) = suffix
    THEN SubSeq(s, 1, Len(s) - Len(suffix))
    ELSE s

\* PathKey where GOOS is not windows
PathKeyOf(path) == Clean(path)

normalizePathOf(path) ==
    LET key == PathKeyOf(Clean(path))
    IN  IF key = Separator THEN key ELSE TrimSuffix(key, Separator)

\* IsPathWithin on the strings it is called with
IsPathWithinOf(path, parent) ==
    LET p   == normalizePathOf(path)
        par == normalizePathOf(parent)
    IN  IF p = <<>> \/ par = <<>> THEN FALSE
        ELSE IF p = par THEN TRUE
        ELSE IF par = Separator THEN HasPrefix(p, Separator)
        ELSE HasPrefix(p, par \o Separator)

pureUnchanged == <<rate, tree, settings, jobs, processing, dropLogged, tasks, fs,
                   catalog, audit, clock, status, geo, watcher, app>>

\* a call of IsPathWithin returns
CallIsPathWithin ==
    /\ pure.fn = "IsPathWithin"
    /\ pure.result = <<>>
    /\ pure' = [pure EXCEPT
                  !.result = <<IsPathWithinOf(pure.args[1], pure.args[2])>>]
    /\ UNCHANGED pureUnchanged

\* IsPathWithin called with any two short strings
InitWithin ==
    /\ tree = (MountA :> <<>>) @@ (MountB :> <<>>)
    /\ settings = [base_storage_dir |-> Unset, excluded_mounts |-> <<>>]
    /\ jobs = <<>>
    /\ processing = {}
    /\ dropLogged = FALSE
    /\ tasks = [t \in TaskIds |-> NoTask]
    /\ fs = {}
    /\ catalog = <<>>
    /\ audit = <<>>
    /\ clock = 1
    /\ status = IdleStatus
    /\ geo = GeoInit
    /\ watcher = WatcherInit
    /\ app = AppInit
    /\ rate = RateInit
    /\ pure \in {[fn |-> "IsPathWithin", args |-> <<p, par>>,
                  result |-> <<>>] : p \in Paths, par \in Paths}

NextWithin == CallIsPathWithin

SpecWithin == InitWithin /\ [][NextWithin]_vars

\* ------------------------------------------------- geoKey
\* the centres of the cells of the key, in units of 0.0001 degree
Centres == {0 - 337510, 0 - 10, 0, 10, 481230}

\* the offsets of less than 0.0005 degree
Offsets == (0 - MaxOffset)..MaxOffset

\* the two calls of geoKey return
CallGeoKey ==
    /\ pure.fn = "geoKey"
    /\ pure.result = <<>>
    /\ pure' = [pure EXCEPT
                  !.result =
                     <<GeoKey(pure.args[1], pure.args[2]),
                       GeoKey(pure.args[1] + pure.args[3],
                              pure.args[2] + pure.args[3])>>]
    /\ UNCHANGED pureUnchanged

\* geoKey called for a centre and for a point beside it
InitKey ==
    /\ tree = (MountA :> <<>>) @@ (MountB :> <<>>)
    /\ settings = [base_storage_dir |-> Unset, excluded_mounts |-> <<>>]
    /\ jobs = <<>>
    /\ processing = {}
    /\ dropLogged = FALSE
    /\ tasks = [t \in TaskIds |-> NoTask]
    /\ fs = {}
    /\ catalog = <<>>
    /\ audit = <<>>
    /\ clock = 1
    /\ status = IdleStatus
    /\ geo = GeoInit
    /\ watcher = WatcherInit
    /\ app = AppInit
    /\ rate = RateInit
    /\ pure \in {[fn |-> "geoKey", args |-> <<lat, lon, eps>>,
                  result |-> <<>>] :
                    lat \in Centres, lon \in Centres, eps \in Offsets}

NextKey == CallGeoKey

SpecKey == InitKey /\ [][NextKey]_vars

\* ------------------------------------------------- Store.ListMapPointsFiltered
\* A row of media_files as the map query sees it: its id, whether gps_lat
\* and gps_lon are not NULL, its kind and its capture time.
MapRowTypes ==
    [gps : BOOLEAN, kind : {"image", "video"}, capture_time : 1..2]

\* the tables the query can run on: the id of a row is its position
MapTables ==
    {[i \in 1..Len(s) |->
        [id |-> i, gps |-> s[i].gps, kind |-> s[i].kind,
         capture_time |-> s[i].capture_time]] :
     s \in SeqsUpTo(MapRowTypes, MaxRows)}

\* the filters of a request: Kind and HasGPS
MapFilters == [Kind : {"", "image", "video"}, HasGPS : {"", "yes", "no"}]

\* buildLocationWhere: the clauses for Kind and HasGPS
buildLocationWhere(filter, r) ==
    /\ filter.Kind \in {"image", "video"} => r.kind = filter.Kind
    /\ filter.HasGPS = "yes" => r.gps
    /\ filter.HasGPS = "no" => ~r.gps

\* WHERE gps_lat IS NOT NULL AND gps_lon IS NOT NULL AND <where>
MapWhere(rows, filter) ==
    SelectSeq(rows, LAMBDA r : r.gps /\ buildLocationWhere(filter, r))

\* ORDER BY capture_time DESC, rows of one capture time in rowid order
RECURSIVE OrderByCaptureDesc(_)
OrderByCaptureDesc(rows) ==
    IF rows = <<>>
    THEN <<>>
    ELSE LET i == CHOOSE k \in 1..Len(rows) :
                     \A j \in 1..Len(rows) :
                        \/ rows[j].capture_time < rows[k].capture_time
                        \/ /\ rows[j].capture_time = rows[k].capture_time
                           /\ k <= j
         IN  <<rows[i]>>
             \o OrderByCaptureDesc(SubSeq(rows, 1, i - 1)
                                   \o SubSeq(rows, i + 1, Len(rows)))

\* the limit the query runs with
MapLimit(limit) ==
    IF limit <= 0 THEN DefaultMapLimit
    ELSE IF limit > MaxMapLimit THEN MaxMapLimit
    ELSE limit

ListMapPointsFiltered(rows, limit, filter) ==
    LET sorted == OrderByCaptureDesc(MapWhere(rows, filter))
        n      == MapLimit(limit)
    IN  SubSeq(sorted, 1, IF Len(sorted) < n THEN Len(sorted) ELSE n)

\* a call of ListMapPointsFiltered returns
CallListMapPoints ==
    /\ pure.fn = "ListMapPointsFiltered"
    /\ pure.result = <<>>
    /\ pure' = [pure EXCEPT
                  !.result = <<ListMapPointsFiltered(pure.args[1],
                                                     pure.args[2],
                                                     pure.args[3])>>]
    /\ UNCHANGED pureUnchanged

\* a daemon that has just started on an empty database, no volume attached
Fresh ==
    /\ tree = (MountA :> <<>>) @@ (MountB :> <<>>)
    /\ settings = [base_storage_dir |-> Unset, excluded_mounts |-> <<>>]
    /\ jobs = <<>>
    /\ processing = {}
    /\ dropLogged = FALSE
    /\ tasks = [t \in TaskIds |-> NoTask]
    /\ fs = {}
    /\ catalog = <<>>
    /\ audit = <<>>
    /\ clock = 1
    /\ status = IdleStatus
    /\ geo = GeoInit
    /\ watcher = WatcherInit
    /\ app = AppInit
    /\ rate = RateInit

\* ListMapPointsFiltered called on any small table with any limit
InitMap ==
    /\ Fresh
    /\ pure \in {[fn |-> "ListMapPointsFiltered",
                  args |-> <<rows, limit, filter>>, result |-> <<>>] :
                    rows \in MapTables,
                    limit \in (0 - 1)..(MaxRows + 1),
                    filter \in MapFilters}

NextMap == CallListMapPoints

SpecMap == InitMap /\ [][NextMap]_vars

\* The sampler at work: rescans of two mounts one after the other, the
\* seconds passing, and GetStatus called at any moment.
InitRate ==
    /\ tree = (MountA :> <<Img1, Empty>>) @@ (MountB :> <<Img2>>)
    /\ settings = [base_storage_dir |-> Lib1, excluded_mounts |-> <<>>]
    /\ jobs = <<>>
    /\ processing = {}
    /\ dropLogged = FALSE
    /\ tasks = [t \in TaskIds |-> NoTask]
    /\ fs = {}
    /\ catalog = <<>>
    /\ audit = <<>>
    /\ clock = 1
    /\ status = IdleStatus
    /\ geo = GeoInit
    /\ watcher = WatcherInit
    /\ app = AppInit
    /\ rate = RateInit
    /\ pure = NoCall

NextRate ==
    \/ \E m \in Mounts :
          /\ \A t \in TaskIds : ~Running(t)
          /\ Rescan(m)
    \/ \E t \in TaskIds : RunStep(t)
    \/ RateTick
    \/ GetStatus

SpecRate == InitRate /\ [][NextRate]_vars

\* ------------------------------------------------ ingestFile, step by step
\* os.Stat and ComputeHashesWithProgress: an empty file is left alone
HashFile(t) ==
    LET rec == tasks[t]
        f   == CurFile(rec)
    IN  /\ rec.pc = "file"
        /\ tasks' = [tasks EXCEPT ![t].pc = IF f.size = 0 THEN "file_end"
                                            ELSE "hashed"]
        /\ rate' = recordRateSample(rate, f.size)
        /\ UNCHANGED <<geo, watcher, app, pure, tree, settings, jobs,
                       processing, dropLogged, fs, catalog, audit, clock,
                       status>>

\* media.ExtractMetadata and normalizeCaptureTime: the capture time the
\* probe is asked with, or the error the callback counts
ExtractMetadata(t) ==
    LET rec == tasks[t]
    IN  /\ rec.pc = "hashed"
        /\ \E ok \in BOOLEAN :
              tasks' = [tasks EXCEPT ![t] =
                  IF ok
                  THEN [rec EXCEPT !.pc = "metadata"]
                  ELSE [rec EXCEPT !.pc = "file_end",
                                   !.result.Errors = @ + 1]]
        /\ UNCHANGED <<sideVars, tree, settings, jobs, processing, dropLogged,
                       fs, catalog, audit, clock, status>>

\* store.MediaExists with the hashes and the capture time: the dedup probe;
\* it fails when the context is cancelled
DedupProbe(t) ==
    LET rec == tasks[t]
    IN  /\ rec.pc = "metadata"
        /\ tasks' = [tasks EXCEPT ![t] =
              IF rec.ctx = "live"
              THEN AfterMediaExists(rec)
              ELSE [rec EXCEPT !.pc = "file_end", !.result.Errors = @ + 1,
                               !.lateHash = @ \/ rec.idx > rec.cancelIdx]]
        /\ UNCHANGED <<sideVars, tree, settings, jobs, processing, dropLogged,
                       fs, catalog, audit, clock, status>>

\* Rescans one at a time, every call of ingestFile taken apart into its
\* calls, with every outcome of ExtractMetadata and of Reverse.
InitOrder ==
    /\ tree \in {(MountA :> a) @@ (MountB :> <<Img1>>) :
                    a \in SeqsUpTo({GeoImg, Img1, Empty}, MaxFiles)}
    /\ settings = [base_storage_dir |-> Lib1, excluded_mounts |-> <<>>]
    /\ jobs = <<>>
    /\ processing = {}
    /\ dropLogged = FALSE
    /\ tasks = [t \in TaskIds |-> NoTask]
    /\ fs = {}
    /\ catalog = <<>>
    /\ audit = <<>>
    /\ clock = 1
    /\ status = IdleStatus
    /\ geo = GeoInit
    /\ watcher = WatcherInit
    /\ app = AppInit
    /\ rate = RateInit
    /\ pure = NoCall

OrderStep(t) ==
    \/ Preflight(t)
    \/ ScanStart(t)
    \/ Scan(t)
    \/ HashFile(t)
    \/ ExtractMetadata(t)
    \/ DedupProbe(t)
    \/ Geocode(t)
    \/ BuildDest(t)
    \/ CopyPart(t)
    \/ CopyRename(t)
    \/ Insert(t)
    \/ FileEnd(t)
    \/ Finalize(t)
    \/ LogRead(t)
    \/ LogInsert(t)
    \/ InsertCancelled(t)
    \/ LogCancelled(t)

NextOrder ==
    \/ \E m \in Mounts :
          /\ \A t \in TaskIds : ~Running(t)
          /\ Rescan(m)
    \/ \E t \in TaskIds : OrderStep(t)

SpecOrder == InitOrder /\ [][NextOrder]_vars

\* ------------------------------------------------ copyFileAtomic, step by step
\* a copy that writes to the destination path itself
tmpPathInPlace(dstPath) == dstPath

\* tmpPath := dstPath + ".part"
tmpPath(dstPath) == PartPath(dstPath)

\* os.Open and os.OpenFile(tmpPath, O_CREATE|O_EXCL|O_WRONLY): the open fails
\* when tmpPath exists, else the file is there, empty
CopyOpen(t) ==
    LET rec == tasks[t]
        tmp == tmpPath(rec.dest)
    IN  /\ rec.pc = "copy"
        /\ IF fileExists(fs, tmp)
           THEN /\ tasks' = [tasks EXCEPT ![t].pc = "file_end",
                                          ![t].result.Errors = @ + 1]
                /\ fs' = fs
           ELSE /\ tasks' = [tasks EXCEPT ![t].pc = "copying"]
                /\ fs' = fs \cup {[LibFile(tmp, CurFile(rec),
                                           tmp # rec.dest, t, rec.idx)
                                      EXCEPT !.complete = FALSE]}
        /\ UNCHANGED <<sideVars, tree, settings, jobs, processing, dropLogged,
                       catalog, audit, clock, status>>

\* io.CopyBuffer with addCopiedBytes as its progress callback and dst.Sync:
\* the bytes are written and synced, or os.Remove(tmpPath) after an error
CopyWrite(t) ==
    LET rec == tasks[t]
        tmp == tmpPath(rec.dest)
    IN  /\ rec.pc = "copying"
        /\ \E ok \in BOOLEAN :
              IF ok
              THEN /\ fs' = {IF f.path = tmp
                             THEN [f EXCEPT !.complete = TRUE]
                             ELSE f : f \in fs}
                   /\ tasks' = [tasks EXCEPT ![t].pc = "rename"]
                   /\ rate' = recordRateSample(rate, CurFile(rec).size)
              ELSE /\ fs' = {f \in fs : f.path # tmp}
                   /\ tasks' = [tasks EXCEPT ![t].pc = "file_end",
                                             ![t].result.Errors = @ + 1]
                   /\ rate' = rate
        /\ UNCHANGED <<geo, watcher, app, pure, tree, settings, jobs,
                       processing, dropLogged, catalog, audit, clock, status>>

\* os.Rename(tmpPath, dstPath), or os.Remove(tmpPath) when it fails
CopyMove(t) ==
    LET rec == tasks[t]
        tmp == tmpPath(rec.dest)
    IN  /\ rec.pc = "rename"
        /\ \E ok \in BOOLEAN :
              IF ok
              THEN /\ fs' = Rename(fs, tmp, rec.dest)
                   /\ tasks' = [tasks EXCEPT ![t].pc = "insert"]
              ELSE /\ fs' = {f \in fs : f.path # tmp}
                   /\ tasks' = [tasks EXCEPT ![t].pc = "file_end",
                                             ![t].result.Errors = @ + 1]
        /\ UNCHANGED <<sideVars, tree, settings, jobs, processing, dropLogged,
                       catalog, audit, clock, status>>

\* Rescans that may overlap, of two mounts that hold the same picture, every
\* call of copyFileAtomic taken apart into open, write and rename, each of
\* which can fail.
InitCopy ==
    /\ tree \in {(MountA :> a) @@ (MountB :> <<Img1>>) :
                    a \in {<<Img1>>, <<Img1b>>}}
    /\ settings = [base_storage_dir |-> Lib1, excluded_mounts |-> <<>>]
    /\ jobs = <<>>
    /\ processing = {}
    /\ dropLogged = FALSE
    /\ tasks = [t \in TaskIds |-> NoTask]
    /\ fs = {}
    /\ catalog = <<>>
    /\ audit = <<>>
    /\ clock = 1
    /\ status = IdleStatus
    /\ geo = GeoInit
    /\ watcher = WatcherInit
    /\ app = AppInit
    /\ rate = RateInit
    /\ pure = NoCall

CopyStep(t) ==
    \/ Preflight(t)
    \/ ScanStart(t)
    \/ Scan(t)
    \/ FileProbe(t)
    \/ BuildDest(t)
    \/ CopyOpen(t)
    \/ CopyWrite(t)
    \/ CopyMove(t)
    \/ Insert(t)
    \/ RemoveDest(t)
    \/ FileEnd(t)
    \/ Finalize(t)
    \/ LogRead(t)
    \/ LogInsert(t)

NextCopy ==
    \/ \E m \in Mounts : Rescan(m)
    \/ \E t \in TaskIds : CopyStep(t)

SpecCopy == InitCopy /\ [][NextCopy]_vars

\* ------------------------------------------------ dispatched runs that end
\* Mount events for two mounts, the dispatcher, and the runs it starts, with
\* contexts that can be cancelled:
\* a run returns a result, a skip, or an error. The goroutine of a run is
\* scheduled again and again until its deferred Delete has run.
InitRelease ==
    /\ tree = (MountA :> <<Img1>>) @@ (MountB :> <<>>)
    /\ settings = [base_storage_dir |-> Lib1, excluded_mounts |-> <<>>]
    /\ jobs = <<>>
    /\ processing = {}
    /\ dropLogged = FALSE
    /\ tasks = [t \in TaskIds |-> NoTask]
    /\ fs = {}
    /\ catalog = <<>>
    /\ audit = <<>>
    /\ clock = 1
    /\ status = IdleStatus
    /\ geo = GeoInit
    /\ watcher = WatcherInit
    /\ app = AppInit
    /\ rate = RateInit
    /\ pure = NoCall

\* only one volume holds a file, so no insert meets a row of another run
\* and the removal after a failed insert has no step here
ReleaseStep(t) ==
    \/ RunStep(t)
    \/ Release(t)
    \/ CancelRun(t)
    \/ PreflightCancelled(t)
    \/ ProbeCancelled(t)
    \/ InsertCancelled(t)
    \/ LogCancelled(t)

NextRelease ==
    \/ \E m \in Mounts :
          /\ Len(jobs) < MaxPending
          /\ QueueMount(m)
    \/ Dispatch
    \/ \E t \in TaskIds : ReleaseStep(t)

SpecRelease ==
    /\ InitRelease
    /\ [][NextRelease]_vars
    /\ \A t \in TaskIds : WF_vars(Release(t))

\* ------------------------------------------------ events that are lost
\* The watcher, the queue, the dispatcher and the runs together: one volume
\* that is plugged in and removed at any moment, with the queue empty at the
\* start, or full of events of earlier appearances of the volume that the
\* dispatcher has not yet received. Runs of one volume never overlap, so
\* no insert fails and the removal after a failed insert has no step here.
InitRedeliver ==
    /\ tree = (MountA :> <<Img1>>) @@ (MountB :> <<>>)
    /\ settings = [base_storage_dir |-> Lib1, excluded_mounts |-> <<>>]
    /\ jobs \in {<<>>, [i \in 1..QueueCap |-> MountA]}
    /\ processing = {}
    /\ dropLogged = FALSE
    /\ tasks = [t \in TaskIds |-> NoTask]
    /\ fs = {}
    /\ catalog = <<>>
    /\ audit = <<>>
    /\ clock = 1
    /\ status = IdleStatus
    /\ geo = GeoInit
    /\ watcher = WatcherInit
    /\ app = AppInit
    /\ rate = RateInit
    /\ pure = NoCall

NextRedeliver ==
    \/ Plug(MountA)
    \/ Unplug(MountA)
    \/ tick
    \/ Dispatch
    \/ \E t \in TaskIds : RunStep(t) \/ Release(t)

SpecRedeliver == InitRedeliver /\ [][NextRedeliver]_vars

\* ------------------------------------------------------------ backup
\* the requests POST /api/backup hands to Start
BackupRequests ==
    [Mode : {"rsync", " SSH ", "api", "tape"},
     Destination : {" ", "nas:/vault"},
     APIMethod : {"", "get"}]

\* strings.ToLower(strings.TrimSpace(req.Mode)),
\* strings.TrimSpace(req.Destination),
\* strings.ToUpper(strings.TrimSpace(req.APIMethod)) with PUT for ""
normalizeRequest(req) ==
    [Mode |-> IF req.Mode = " SSH " THEN "ssh" ELSE req.Mode,
     Destination |-> IF req.Destination = " " THEN "" ELSE req.Destination,
     APIMethod |-> IF req.APIMethod = "" THEN "PUT"
                   ELSE IF req.APIMethod = "get" THEN "GET"
                   ELSE req.APIMethod]

\* validateRequest: nil, or an error that wraps ErrInvalidRequest
validateRequest(req) ==
    IF req.Mode \notin {"ssh", "s3", "api", "rsync"} THEN "ErrInvalidRequest"
    ELSE IF req.Destination = "" THEN "ErrInvalidRequest"
    ELSE IF req.Mode = "api" /\ req.APIMethod \notin {"PUT", "POST"}
    THEN "ErrInvalidRequest"
    ELSE "nil"

\* the goroutines of run that have not returned
ActiveBackups(b) == {i \in 1..Len(b.runs) : b.runs[i].pc # "done"}

\* what Start does with a valid request
Started(b, req, ret) ==
    [b EXCEPT !.status = IF ret = "nil"
                         THEN [BackupIdle EXCEPT
                                 !.State = "running", !.Mode = req.Mode,
                                 !.Destination = req.Destination]
                         ELSE @,
              !.runs = IF ret = "nil"
                       THEN Append(@, [pc |-> "setting", req |-> req])
                       ELSE @,
              !.call = [ret |-> ret, seq |-> 1 - b.call.seq]]

\* a Start that does not look at the state
StartNoBusy(raw) ==
    LET req == normalizeRequest(raw)
    IN  /\ Len(app.backup.runs) < MaxBackups
        /\ app' = [app EXCEPT
                     !.backup = Started(@, req, validateRequest(req))]
        /\ UNCHANGED <<webUnchanged, settings, tasks>>

\* Manager.Start: the request is normalized and validated, then, under
\* the mutex, the state is tested and set to running, and run is launched
Start(raw) ==
    LET req == normalizeRequest(raw)
        ret == IF validateRequest(req) # "nil" THEN validateRequest(req)
               ELSE IF app.backup.status.State = "running" THEN "ErrBusy"
               ELSE "nil"
    IN  /\ Len(app.backup.runs) < MaxBackups
        /\ app' = [app EXCEPT !.backup = Started(@, req, ret)]
        /\ UNCHANGED <<webUnchanged, settings, tasks>>

\* failf: the state is error
failf(st) == [st EXCEPT !.State = "error"]

\* run reads base_storage_dir: a database error, a missing or a blank
\* value end the run with failf
BackupSetting(i) ==
    /\ i \in 1..Len(app.backup.runs)
    /\ app.backup.runs[i].pc = "setting"
    /\ \E dbErr \in BOOLEAN :
          app' = [app EXCEPT !.backup =
              IF \/ dbErr
                 \/ settings.base_storage_dir = Unset
                 \/ TrimSpace(settings.base_storage_dir) = <<>>
              THEN [@ EXCEPT !.status = failf(@), !.runs[i].pc = "done"]
              ELSE [@ EXCEPT !.runs[i].pc = "transfer"]]
    /\ UNCHANGED <<webUnchanged, settings, tasks>>

\* bumpProgress: one more file is in the archive
bumpProgress(i) ==
    /\ i \in 1..Len(app.backup.runs)
    /\ app.backup.runs[i].pc = "transfer"
    /\ app.backup.status.Files < MaxBackupFiles
    /\ app' = [app EXCEPT !.backup.status.Files = @ + 1]
    /\ UNCHANGED <<webUnchanged, settings, tasks>>

\* runRsync or runArchiveTransfer returns: failf with its error, or the
\* state is success
BackupEnd(i) ==
    /\ i \in 1..Len(app.backup.runs)
    /\ app.backup.runs[i].pc = "transfer"
    /\ \E runErr \in BOOLEAN :
          app' = [app EXCEPT
                    !.backup.status = IF runErr THEN failf(@)
                                      ELSE [@ EXCEPT !.State = "success"],
                    !.backup.runs[i].pc = "done"]
    /\ UNCHANGED <<webUnchanged, settings, tasks>>

\* Backups requested at any moment, with and without a storage directory.
InitBackup ==
    /\ tree = (MountA :> <<>>) @@ (MountB :> <<>>)
    /\ settings \in {[base_storage_dir |-> b, excluded_mounts |-> <<>>] :
                        b \in {Unset, Blank, Lib1}}
    /\ jobs = <<>>
    /\ processing = {}
    /\ dropLogged = FALSE
    /\ tasks = [t \in TaskIds |-> NoTask]
    /\ fs = {}
    /\ catalog = <<>>
    /\ audit = <<>>
    /\ clock = 1
    /\ status = IdleStatus
    /\ geo = GeoInit
    /\ watcher = WatcherInit
    /\ app = AppInit
    /\ rate = RateInit
    /\ pure = NoCall

NextBackup ==
    \/ \E raw \in BackupRequests : Start(raw)
    \/ \E i \in 1..MaxBackups : BackupSetting(i)
    \/ \E i \in 1..MaxBackups : bumpProgress(i)
    \/ \E i \in 1..MaxBackups : BackupEnd(i)

SpecBackup == InitBackup /\ [][NextBackup]_vars

\* ------------------------------------------------------------ properties
RowKey(row) == <<row.crc32, row.size_bytes, row.capture_time>>

EntriesOf(t, idx, action) ==
    {i \in 1..Len(audit) : /\ audit[i].task = t
                           /\ audit[i].file = idx
                           /\ audit[i].action = action}

\* C1: no two ProcessMount runs of one mount are active at the same instant,
\* whether dispatched from the queue or started by POST /api/rescan
C1_OneRunPerMount ==
    \A t1, t2 \in TaskIds :
        (Running(t1) /\ Running(t2) /\ t1 # t2)
            => PathKey(tasks[t1].mount) # PathKey(tasks[t2].mount)

\* C2: the audit log is one hash chain: the first entry has the empty
\* prev_hash and every later entry's prev_hash is its predecessor's hash
C2_AuditChain ==
    \A i \in 1..Len(audit) :
        audit[i].prev_hash =
            (IF i = 1 THEN EmptyHash ELSE audit[i - 1].entry_hash)

\* C3: no two catalog rows share the dedup key (CRC32, size, capture time)
C3_DedupKeyUnique ==
    \A i, j \in 1..Len(catalog) :
        i # j => RowKey(catalog[i]) # RowKey(catalog[j])

\* an ingest of an artifact lost the race against another one: its insert
\* hit the unique constraint after its probe had found no row
C3_LostRace == \E t \in TaskIds : tasks[t].pc = "remove"

\* C4: the file at every row's destination path exists and has the CRC32
\* and size recorded in the row
C4_RowFileIntact ==
    \A i \in 1..Len(catalog) :
        \E f \in fs : /\ f.path = catalog[i].dest_path
                      /\ f.crc = catalog[i].crc32
                      /\ f.size = catalog[i].size_bytes

\* C5: every row's destination path lies strictly under the configured
\* base_storage_dir
C5_RowsUnderBase ==
    \A i \in 1..Len(catalog) :
        /\ IsPathWithin(catalog[i].dest_path, settings.base_storage_dir)
        /\ catalog[i].dest_path # settings.base_storage_dir

\* C6: an ingest of a file whose dedup key was already in the catalog adds
\* no row, leaves no library file, and writes exactly one duplicate_skipped
\* entry for the file
C6_DuplicateSkipped ==
    \A t \in TaskIds :
        tasks[t].seen =>
            /\ tasks[t].pc \in {"log_read", "log_insert", "file_end"}
            /\ ~\E i \in 1..Len(catalog) :
                   catalog[i].task = t /\ catalog[i].file = tasks[t].idx
            /\ ~\E f \in fs : f.task = t /\ f.file = tasks[t].idx
            /\ EntriesOf(t, tasks[t].idx, "file_ingested") = {}
            /\ Cardinality(EntriesOf(t, tasks[t].idx, "duplicate_skipped"))
                  = (IF tasks[t].pc = "file_end" THEN 1 ELSE 0)

C6_Skipped == \E t \in TaskIds : tasks[t].seen /\ tasks[t].pc = "file_end"

\* C8: every file_ingested entry has the row its insert committed, with the
\* same destination path; a failed insert has no file_ingested entry
C8_IngestedAfterInsert ==
    \A i \in 1..Len(audit) :
        audit[i].action = "file_ingested" =>
            \E j \in 1..Len(catalog) :
                /\ catalog[j].task = audit[i].task
                /\ catalog[j].file = audit[i].file
                /\ catalog[j].dest_path = audit[i].details.dest_path

\* one insert has been audited and another one has just failed
C8_IngestedAndFailed ==
    /\ \E i \in 1..Len(audit) : audit[i].action = "file_ingested"
    /\ \E t \in TaskIds : tasks[t].pc = "remove"

\* C9: in a run, ingest_started precedes every per-file entry and every
\* per-file entry precedes ingest_completed
C9_AuditOrder ==
    \A j \in 1..Len(audit) :
        LET e == audit[j]
        IN  /\ e.action \in {"file_ingested", "duplicate_skipped"} =>
                \E i \in 1..(j - 1) : /\ audit[i].task = e.task
                                      /\ audit[i].action = "ingest_started"
            /\ e.action = "ingest_completed" =>
                /\ \E i \in 1..(j - 1) : /\ audit[i].task = e.task
                                         /\ audit[i].action = "ingest_started"
                /\ \A k \in 1..Len(audit) :
                      (audit[k].task = e.task /\ k # j) => k < j

C9_Completed ==
    \E j, k \in 1..Len(audit) :
        /\ audit[j].action = "ingest_completed"
        /\ audit[k].task = audit[j].task
        /\ audit[k].action \in {"file_ingested", "duplicate_skipped"}

\* the eligible non-empty files of the mount of run t
NonEmptyFiles(t) ==
    {i \in 1..Len(RunFiles(tasks[t])) : RunFiles(tasks[t])[i].size > 0}

\* the dedup keys among them that no earlier run has put in the catalog
NewKeys(t) ==
    {DedupKey(RunFiles(tasks[t])[i]) : i \in NonEmptyFiles(t)}
    \ {RowKey(catalog[j]) :
          j \in {k \in 1..Len(catalog) : catalog[k].task < t}}

\* run t is the second of two runs in a row on one mount
SecondRun(t) == t > 1 /\ tasks[t - 1].mount = tasks[t].mount

C7_Results ==
    \A t \in TaskIds :
        tasks[t].pc = "done" =>
            LET K == Cardinality(NonEmptyFiles(t))
                D == Cardinality(NewKeys(t))
            IN  /\ tasks[t].result =
                      [Scanned |-> Len(RunFiles(tasks[t])), Copied |-> D,
                       Duplicates |-> K - D, Errors |-> 0]
                /\ SecondRun(t) => /\ tasks[t].result.Copied = 0
                                   /\ tasks[t].result.Duplicates = K

C7_LibraryKept ==
    \A t \in TaskIds :
        (Running(t) /\ SecondRun(t)) => (catalog' = catalog /\ fs' = fs)

\* C7 (amended): of two runs in a row on an unchanged mount with K eligible
\* non-empty files, the first yields copied = D, duplicates = K - D, errors
\* = 0, D being the number of distinct dedup keys among the files that are
\* not yet in the catalog, the second yields copied = 0, duplicates = K,
\* errors = 0, and the second changes neither library files nor rows
C7_TwiceInARow == []C7_Results /\ [][C7_LibraryKept]_vars

\* a second run in a row has ended, after a first one that met two files of
\* one dedup key
C7_SecondRunDone ==
    \E t \in TaskIds : /\ tasks[t].pc = "done"
                       /\ SecondRun(t)
                       /\ tasks[t].result.Duplicates >= 2
                       /\ tasks[t - 1].result.Duplicates >= 1

\* C7 as stated: the first run copies all K files and counts no duplicate,
\* the second counts K duplicates
C7_AsStated ==
    \A t \in TaskIds :
        (tasks[t].pc = "done" /\ SecondRun(t)) =>
            LET K == Cardinality(NonEmptyFiles(t))
            IN  /\ tasks[t - 1].result.Copied = K
                /\ tasks[t - 1].result.Duplicates = 0
                /\ tasks[t - 1].result.Errors = 0
                /\ tasks[t].result.Copied = 0
                /\ tasks[t].result.Duplicates = K
                /\ tasks[t].result.Errors = 0

\* C10: QueueMount never blocks; on a full queue it changes neither the
\* queue nor the processing set nor Status, otherwise it appends the mount
C10_QueueMountStep ==
    \A m \in Mounts :
        QueueMount(m) =>
            IF Len(jobs) >= QueueCap
            THEN jobs' = jobs /\ processing' = processing /\ status' = status
            ELSE jobs' = Append(jobs, m)

C10_QueueMount ==
    /\ [](\A m \in Mounts : ENABLED QueueMount(m))
    /\ [][C10_QueueMountStep]_vars

\* an event has been dropped and the queue is still full
C10_Dropped == Len(jobs) = QueueCap /\ dropLogged

\* the dispatched runs of a path-key that have not yet deleted the key
QueueRunsOf(key) ==
    {t \in TaskIds : /\ tasks[t].kind = "queue"
                     /\ tasks[t].pc # "done"
                     /\ PathKey(tasks[t].mount) = key}

C11_DispatchStep ==
    Dispatch =>
        LET mount == Head(jobs)
            key   == PathKey(mount)
        IN  /\ jobs' = Tail(jobs)
            /\ IF key \in processing
               THEN tasks' = tasks /\ processing' = processing
               ELSE /\ processing' = processing \cup {key}
                    /\ \E t \in TaskIds :
                          /\ tasks[t].kind = "none"
                          /\ tasks'[t].kind = "queue"
                          /\ tasks'[t].pc = "preflight"
                          /\ tasks'[t].mount = mount
                          /\ \A u \in TaskIds \ {t} : tasks'[u] = tasks[u]

\* C11: a dequeued event whose path-key is in the processing set is
\* discarded and changes no run; otherwise the key is inserted and exactly
\* one run is started, so a key in the set has exactly one dispatched run
C11_LoadOrStore ==
    /\ [](\A m \in Mounts :
            Cardinality(QueueRunsOf(PathKey(m)))
                = (IF PathKey(m) \in processing THEN 1 ELSE 0))
    /\ [][C11_DispatchStep]_vars

\* a dispatched run is copying while a second event for its mount is the
\* next one the dispatcher receives
C11_SecondEventPending ==
    /\ jobs # <<>>
    /\ \E t \in TaskIds : /\ tasks[t].kind = "queue"
                          /\ tasks[t].pc = "rename"
                          /\ tasks[t].mount = Head(jobs)

\* run t took the preflight exit that writes the audit entry `action`
Skipped(t, action) ==
    \/ tasks[t].log.action = action
    \/ EntriesOf(t, 0, action) # {}

\* what a run that left by a preflight exit has done so far
CleanNoOp(t, action) ==
    /\ tasks[t].pc \in {"log_read", "log_insert", "done", "release"}
    /\ tasks[t].result = ZeroResult
    /\ \A i \in 1..Len(audit) :
          audit[i].task = t => audit[i].action = action
    /\ Cardinality(EntriesOf(t, 0, action))
          = (IF tasks[t].pc \in {"done", "release"} THEN 1 ELSE 0)
    /\ ~\E i \in 1..Len(catalog) : catalog[i].task = t
    /\ ~\E f \in fs : f.task = t

C12_NoOp ==
    \A t \in TaskIds :
        Skipped(t, "ingest_skipped_no_storage")
            => CleanNoOp(t, "ingest_skipped_no_storage")

C12_Step ==
    \A t \in TaskIds :
        /\ ( /\ tasks[t].pc = "preflight"
             /\ tasks'[t].pc # "preflight"
             /\ settings.base_storage_dir \in {Unset, <<>>, Blank} )
           => tasks'[t].log.action = "ingest_skipped_no_storage"
        /\ ( /\ tasks'[t] # tasks[t]
             /\ Skipped(t, "ingest_skipped_no_storage")' )
           => status' = status

\* C12: a run that finds base_storage_dir unset or blank writes exactly one
\* ingest_skipped_no_storage entry and nothing else, returns the zero
\* Result, creates no file and no row, and never changes Status
C12_NoStorage == []C12_NoOp /\ [][C12_Step]_vars

\* a rescan returned after finding a blank base_storage_dir
C12_BlankSkipped ==
    /\ settings.base_storage_dir = Blank
    /\ \E t \in TaskIds :
          /\ tasks[t].pc = "done"
          /\ EntriesOf(t, 0, "ingest_skipped_no_storage") # {}

\* path a is path b or an ancestor of it
Contains(a, b) ==
    /\ Len(a) <= Len(b)
    /\ \A i \in 1..Len(a) : a[i] = b[i]

Overlap(a, b) == Contains(a, b) \/ Contains(b, a)

\* the mount equals, contains or is contained by the base or an exclusion
Refused(mount) ==
    \/ Overlap(mount, settings.base_storage_dir)
    \/ \E i \in 1..Len(settings.excluded_mounts) :
          Overlap(mount, settings.excluded_mounts[i])

C13_NoOp ==
    \A t \in TaskIds :
        Skipped(t, "ingest_skipped_excluded_mount")
            => CleanNoOp(t, "ingest_skipped_excluded_mount")

C13_Step ==
    \A t \in TaskIds :
        ( /\ tasks[t].pc = "preflight"
          /\ tasks'[t].pc # "preflight"
          /\ settings.base_storage_dir \notin {Unset, <<>>, Blank} )
        => IF Refused(tasks[t].mount)
           THEN tasks'[t].log.action = "ingest_skipped_excluded_mount"
           ELSE tasks'[t].pc = "scan_start"

StateTransitions ==
    {<<"idle", "scanning">>, <<"scanning", "ingesting">>,
     <<"ingesting", "idle">>, <<"scanning", "error">>,
     <<"ingesting", "error">>, <<"error", "scanning">>}

C14_StateStep ==
    \/ status'.State = status.State
    \/ <<status.State, status'.State>> \in StateTransitions

\* C14: the published State only ever moves idle -> scanning -> ingesting
\* -> idle, or into error and from error to scanning
C14_StateSequence == [][C14_StateStep]_vars

\* C15: a run whose walk of the mount root failed has set State to error,
\* which stays until another run starts, and has written no
\* ingest_completed entry
C15_WalkErrorMarked ==
    \A t \in TaskIds :
        ( /\ tasks[t].mount \in Unreadable
          /\ tasks[t].pc = "done"
          /\ \A u \in TaskIds : u > t => tasks[u].kind = "none" )
        => /\ status.State = "error"
           /\ EntriesOf(t, 0, "ingest_completed") = {}

\* the empty files among the first n eligible files of run t
EmptyUpTo(t, n) ==
    Cardinality({i \in 1..n : RunFiles(tasks[t])[i].size = 0})

\* every file the run has finished has at most one outcome, and exactly one
\* unless it is empty; a run that has ended has finished every eligible file
\* and written ingest_completed; no part file outlives its copy
C16_Accounted ==
    /\ \A t \in TaskIds :
          LET r == tasks[t].result
              n == IF tasks[t].pc = "file_end" THEN tasks[t].idx
                   ELSE Len(RunFiles(tasks[t]))
          IN  /\ tasks[t].pc \in {"file_end", "finalize", "done"} =>
                  /\ r.Copied + r.Duplicates + r.Errors <= n
                  /\ r.Copied + r.Duplicates + r.Errors
                        >= n - EmptyUpTo(t, n)
                  /\ Cardinality({i \in 1..Len(catalog) :
                                     catalog[i].task = t}) = r.Copied
                  /\ Cardinality({f \in fs : f.task = t}) = r.Copied
              /\ tasks[t].pc = "done" =>
                  Cardinality(EntriesOf(t, 0, "ingest_completed")) = 1
    /\ (\A t \in TaskIds : tasks[t].pc # "rename") =>
          ~\E f \in fs : f.part

\* a step that counts an error counts one, ends the file, adds no row and
\* leaves neither a part file nor a library file of that file
C16_ErrorStep ==
    \A t \in TaskIds :
        tasks'[t].result.Errors # tasks[t].result.Errors =>
            /\ tasks'[t].result.Errors = tasks[t].result.Errors + 1
            /\ tasks'[t].result.Copied = tasks[t].result.Copied
            /\ tasks'[t].pc = "file_end"
            /\ tasks'[t].idx = tasks[t].idx
            /\ catalog' = catalog
            /\ ~\E f \in fs' : f.part
            /\ ~\E f \in fs' : f.task = t /\ f.file = tasks[t].idx

\* C16: a failure while ingesting a file counts exactly one error for it,
\* leaves no part file and no row for it, and the run goes on to every
\* remaining file and ends with ingest_completed
C16_PerFileFailure == []C16_Accounted /\ [][C16_ErrorStep]_vars

\* a run has ended in which one file was copied and another one failed
C16_CopiedAndFailed ==
    \E t \in TaskIds : /\ tasks[t].pc = "done"
                       /\ tasks[t].result.Copied = 1
                       /\ tasks[t].result.Errors = 1

\* C17: once a run of the mount has ended (after the last restart, if there
\* was a crash) the library holds no part file and every non-empty eligible
\* file of the mount is there exactly once: one row and one library file
C17_CrashRecovered ==
    (\E t \in TaskIds : tasks[t].pc = "done" /\ tasks[t].mount = MountA) =>
        /\ ~\E f \in fs : f.part
        /\ \A i \in 1..Len(Eligible(tree[MountA])) :
              LET f == Eligible(tree[MountA])[i]
              IN  f.size > 0 =>
                    /\ Cardinality({j \in 1..Len(catalog) :
                                       RowKey(catalog[j]) = DedupKey(f)}) = 1
                    /\ Cardinality({g \in fs : g.crc = f.crc /\ ~g.part})
                          = 1

\* C18: an insert that fails on the unique constraint is a Duplicate
\* outcome like the probe's: the file is deleted, duplicates is incremented
\* and a duplicate_skipped entry is written, so at the end of each file a
\* run has written one duplicate_skipped entry per duplicate it counted
C18_UniqueViolationAudited ==
    \A t \in TaskIds :
        tasks[t].pc = "file_end" =>
            Cardinality({i \in 1..Len(audit) :
                            /\ audit[i].task = t
                            /\ audit[i].action = "duplicate_skipped"})
                = tasks[t].result.Duplicates

\* C19: at most one request is sent for a geo_key, and every caller of the
\* key gets the same location
C19_OneRequestPerKey ==
    /\ \A i, j \in 1..Len(geo.reqs) :
          geo.reqs[i].key = geo.reqs[j].key => i = j
    /\ \A l1, l2 \in geo.returned :
          l1.GeocodeKey = l2.GeocodeKey => l1 = l2

\* C20: any two consecutive requests of callers with different geo_keys
\* are at least minInterval (1.1 s) apart
C20_RequestSpacing ==
    \A i \in 1..(Len(geo.reqs) - 1) :
        geo.reqs[i + 1].key # geo.reqs[i].key =>
            geo.reqs[i + 1].at - geo.reqs[i].at >= MinInterval

\* C21: an originating call whose context is cancelled during the rate
\* limit wait sends no request and returns the cancellation error, and
\* the callers that joined its in-flight entry are released
Originator(c) ==
    /\ Caller(c).call \in 1..Len(geo.calls)
    /\ geo.calls[Caller(c).call].origin = c
    /\ Caller(c).pc \in {"sleep", "publish", "return"}

CancelledInWait(c) ==
    /\ Originator(c)
    /\ Caller(c).pc = "sleep"
    /\ Caller(c).ctx = "cancelled"

JoinedTo(j, c) ==
    /\ Caller(j).pc = "join"
    /\ Caller(j).call = Caller(c).call

C21_NoRequest ==
    \A k \in 1..Len(geo.calls) :
        geo.calls[k].aborted =>
            /\ \A i \in 1..Len(geo.reqs) : geo.reqs[i].call # k
            /\ geo.calls[k].done => geo.calls[k].err = "canceled"
            /\ \A c \in GeoCallers :
                  (Originator(c) /\ Caller(c).call = k) =>
                      (Caller(c).err = "canceled" /\ Caller(c).loc = NoLoc)

C21_CancelStep ==
    \A c \in GeoCallers :
        (CancelledInWait(c) /\ Caller(c)' # Caller(c)) =>
            /\ geo.reqs' = geo.reqs
            /\ Caller(c).err' = "canceled"
            /\ Caller(c).pc' = "publish"

C21_CancelReleases ==
    /\ []C21_NoRequest
    /\ [][C21_CancelStep]_vars
    /\ \A c, j \in GeoCallers :
          (CancelledInWait(c) /\ JoinedTo(j, c)) ~> (Caller(j).pc # "join")

C21_JoinerReleased ==
    \E c, j \in GeoCallers :
        /\ c # j
        /\ Caller(j).pc = "return"
        /\ Caller(j).err = "canceled"
        /\ Caller(j).ctx = "live"
        /\ Caller(j).call = Caller(c).call
        /\ Originator(c)
        /\ geo.calls[Caller(c).call].aborted
        /\ geo.calls[Caller(c).call].done

\* C22: a GPS-tagged file for which Reverse gave no location is ingested
\* all the same: its row has empty location fields, its file lies under
\* base/Unknown/date, and no error is counted for it
NoLocationTried(t, outcomes) ==
    /\ tasks[t].pc = "file_end"
    /\ tasks[t].tried \in outcomes
    /\ tasks[t].loc = NoLoc
    /\ tasks[t].tried # "cancelled" => tasks[t].ctx = "live"

IngestedUnknown(t) ==
    LET rec == tasks[t]
        f   == CurFile(rec)
    IN  /\ rec.result.Errors = rec.errs0
        /\ \E i \in 1..Len(catalog) :
              /\ catalog[i].task = t
              /\ catalog[i].file = rec.idx
              /\ catalog[i].loc = NoLoc
              /\ catalog[i].dest_path =
                    Candidate(rec.base \o <<"Unknown">>
                                       \o DateSegs(f.capture), f, 0)
              /\ \E g \in fs : g.path = catalog[i].dest_path /\ ~g.part

C24_AbortsBetweenFiles ==
    \A t \in TaskIds :
        tasks[t].ctx = "cancelled" =>
            /\ ~tasks[t].lateHash
            /\ tasks[t].pc = "done" => \A g \in fs : g.task = t => ~g.part

\* C23: a tick calls onNew exactly once for each mount of its enumeration
\* that was not in the previous enumeration, and for no other mount; a
\* mount that stays makes no further call, one that left and came back
\* makes one more
CallsIn(calls, n, m) ==
    Cardinality({i \in 1..Len(calls) :
                    calls[i] = [tick |-> n, mount |-> m]})

CallsOfTick(n, m) == CallsIn(watcher.calls, n, m)

C23_TickStep ==
    watcher.ticks' # watcher.ticks =>
        /\ \A m \in Volumes :
              CallsIn(watcher.calls', watcher.ticks', m) =
                  (IF m \in watcher.mounted /\ PathKey(m) \notin watcher.last
                   THEN 1 ELSE 0)
        /\ watcher.seen' = {PathKey(m) : m \in watcher.mounted}

C23_OnNewOnce ==
    /\ [](watcher.seen = watcher.last)
    /\ [][C23_TickStep]_vars

C23_Reappeared ==
    \E m \in Volumes :
        /\ CallsOfTick(1, m) = 1
        /\ CallsOfTick(2, m) = 0
        /\ CallsOfTick(3, m) = 0
        /\ CallsOfTick(4, m) = 1
        /\ watcher.ticks = 4

\* C25: while a run is between its scanning start and its finalization,
\* every step that modifies Status is a step of that run
Publishing(t) ==
    /\ Running(t)
    /\ tasks[t].pc \notin {"preflight", "scan_start"}

C25_WriterStep ==
    status' # status =>
        \A t \in TaskIds : Publishing(t) => tasks'[t] # tasks[t]

C25_SingleWriter == [][C25_WriterStep]_vars

\* C26: a request with a session token is authenticated only while the row
\* keyed by SHA-256(token) exists and has not expired; after the logout
\* that deleted the row, or after the expiry instant of the cookie, an
\* endpoint behind withAuth answers 401 for the token; and no row of
\* sessions holds a token in plaintext.
C26_NoPlaintext ==
    \A s \in app.sessions :
        /\ s.token_hash \notin Tokens
        /\ \A k \in app.cookies : s.token_hash # k.token

C26_AuthStep ==
    app.last'.seq # app.last.seq =>
        LET c == app.last'.cookie
        IN  /\ app.last'.status \in {200, 401}
            /\ app.last'.status = 200 =>
                  \E s \in app.sessions :
                      /\ s.token_hash = TokenHash(c)
                      /\ app.now <= s.expires_at
            /\ c \in app.revoked => app.last'.status = 401
            /\ \A k \in app.cookies :
                  k.token = c /\ app.now > k.expires =>
                      app.last'.status = 401

C26_SessionToken == []C26_NoPlaintext /\ [][C26_AuthStep]_vars

\* a token that has not expired is refused after its logout
C26_RefusedAfterLogout ==
    /\ app.last.status = 401
    /\ app.last.cookie \in app.revoked
    /\ \E k \in app.cookies :
          k.token = app.last.cookie /\ app.now <= RFC3339(k.expires)

\* C27: POST /api/setup creates a user only on first run: whatever the
\* interleaving of setup requests, at most one of them creates a user and
\* sets the storage dir, and a setup request that is handled once a user
\* exists is rejected and changes neither users nor settings.
CreatedUser(t) ==
    /\ tasks[t].kind = "setup"
    /\ \/ tasks[t].pc \in {"set_setting", "issue_session"}
       \/ tasks[t].ret \in {"issue_session", "201"}

C27_OneCreator ==
    /\ Cardinality({t \in TaskIds : CreatedUser(t)}) <= 1
    /\ Len(app.users) <= 1

C27_RejectStep ==
    \A t \in TaskIds :
        (/\ tasks[t].kind = "setup"
         /\ tasks[t].pc = "has_users"
         /\ Len(app.users) > 0
         /\ tasks'[t] # tasks[t]) =>
            /\ tasks'[t].pc = "done"
            /\ tasks'[t].ret = "409"
            /\ app'.users = app.users
            /\ settings' = settings

C27_FirstRunOnly == []C27_OneCreator /\ [][C27_RejectStep]_vars

\* C28: POST /api/media/delete counts each normalized id exactly once, so
\* that deleted + not_found + failed is the number of normalized ids; when
\* an id is counted deleted its library file was removed before its row;
\* and when an id is counted failed because its destination is outside
\* the base storage, neither its file nor its row is removed.
Deleting(t) == tasks[t].kind = "delete" /\ tasks[t].pc # "done"

OutsideBase(t) ==
    LET rec == tasks[t]
        id  == rec.del.ids[rec.idx]
    IN  /\ Deleting(t)
        /\ rec.pc = "id"
        /\ rec.idx <= Len(rec.del.ids)
        /\ HasRecord(rec.del.records, id)
        /\ rec.base # <<".">>
        /\ ~IsPrefix(rec.base, RecordByID(rec.del.records, id).dest_path)

C28_Counted ==
    \A t \in TaskIds :
        tasks[t].kind = "delete" =>
            LET d == tasks[t].del
            IN  /\ d.deleted + d.not_found + d.failed = Len(d.done)
                /\ Len(d.done) <= Len(d.ids)
                /\ \A i \in 1..Len(d.done) : d.done[i].id = d.ids[i]
                /\ \A i, j \in 1..Len(d.ids) :
                      d.ids[i] > 0 /\ (i # j => d.ids[i] # d.ids[j])
                /\ (tasks[t].pc = "done" /\ tasks[t].ret = "") =>
                      Len(d.done) = Len(d.ids)

C28_DeleteStep ==
    \A t \in TaskIds :
        /\ (Deleting(t) /\ tasks'[t].del.deleted # tasks[t].del.deleted) =>
              LET r == RecordByID(tasks[t].del.records,
                                  tasks[t].del.ids[tasks[t].idx])
              IN  /\ ~fileExists(fs, r.dest_path)
                  /\ fs' = fs
                  /\ \A i \in 1..Len(catalog') : catalog'[i].id # r.id
        /\ (OutsideBase(t) /\ tasks'[t] # tasks[t]) =>
              /\ tasks'[t].del.failed = tasks[t].del.failed + 1
              /\ fs' = fs
              /\ catalog' = catalog

C28_DeleteCounts == []C28_Counted /\ [][C28_DeleteStep]_vars

\* a request that has counted one id as failed for a row outside the base,
\* one as deleted and one as not found
C28_OneOfEach ==
    \E t \in TaskIds :
        /\ tasks[t].kind = "delete"
        /\ tasks[t].pc = "done"
        /\ tasks[t].del.done = <<[id |-> 1, as |-> "failed"],
                                 [id |-> 2, as |-> "deleted"],
                                 [id |-> 3, as |-> "not_found"]>>
        /\ \E i \in 1..Len(catalog) : catalog[i].id = 1
        /\ fileExists(fs, LibraryCatalog[1].dest_path)
        /\ ~fileExists(fs, LibraryCatalog[2].dest_path)

\* C29: IsPathWithin(child, parent) is true exactly when, after
\* normalization, child equals parent or child has parent followed by a
\* separator as a prefix, and it is false whenever one of its arguments is
\* not an absolute path.
WithSeparator(path) ==
    IF path = Separator THEN path ELSE path \o Separator

C29_Expected(child, parent) ==
    /\ IsAbs(child)
    /\ IsAbs(parent)
    /\ \/ normalizePathOf(child) = normalizePathOf(parent)
       \/ HasPrefix(normalizePathOf(child),
                    WithSeparator(normalizePathOf(parent)))

C29_WithinIff ==
    (pure.fn = "IsPathWithin" /\ pure.result # <<>>) =>
        pure.result[1] = C29_Expected(pure.args[1], pure.args[2])

\* C30: the geocode key of (lat, lon) is the key of (lat + e, lon + e) for
\* every offset e of less than 0.0005 degree, the key being the "%.3f,%.3f"
\* rendering of the two coordinates rounded to three decimals.
C30_KeyStable ==
    (pure.fn = "geoKey" /\ pure.result # <<>>) =>
        pure.result[1] = pure.result[2]

\* C31: ListMapPointsFiltered(limit = N, filter) returns every geotagged row
\* that matches the filter whenever N is at least the number of such rows.
C31_NoTruncation ==
    (pure.fn = "ListMapPointsFiltered" /\ pure.result # <<>>) =>
        LET matching == MapWhere(pure.args[1], pure.args[3])
        IN  Len(matching) <= pure.args[2] =>
                \A i \in 1..Len(matching) :
                    \E j \in 1..Len(pure.result[1]) :
                        pure.result[1][j] = matching[i]

\* C32: GetStatus reports MBps = 0 in every snapshot whose State is not
\* ingesting.
C32_ZeroUnlessIngesting ==
    rate.last.State # "ingesting" => rate.last.MBps = 0

\* C32: while State is ingesting, the snapshot GetStatus returns has
\* MBps > 0 exactly when bytes were sampled within the last 3 seconds.
C32_SnapshotStep ==
    rate'.last.seq # rate.last.seq =>
        (rate'.last.MBps > 0 <=>
            /\ status.State = "ingesting"
            /\ \E i \in 1..Len(rate.samples) :
                  /\ rate.samples[i].Bytes > 0
                  /\ rate.samples[i].At >= rate.now - RecentWindow)

\* C32: during a run that hashes and copies non-empty files GetStatus
\* reports MBps > 0 while State is ingesting and bytes were sampled in the
\* last 3 seconds, and MBps = 0 in every snapshot whose State is not
\* ingesting.
C32_LiveMBps == []C32_ZeroUnlessIngesting /\ [][C32_SnapshotStep]_vars

\* a snapshot taken during a run, after it hashed and copied a file, that
\* reports State ingesting and MBps > 0
C32_RateSeen ==
    /\ rate.last.State = "ingesting"
    /\ rate.last.MBps > 0
    /\ \E t \in TaskIds :
          /\ Running(t)
          /\ tasks[t].result.Copied > 0

\* C33: for each ingested file the steps occur in the order hash, dedup
\* probe, metadata extraction, geocode, copy, insert, audit: metadata is
\* extracted only after the probe has answered, Reverse is called only
\* after the metadata is there, and no copy starts before the probe has
\* answered "not present".
C33_OrderStep ==
    \A t \in TaskIds :
        /\ (tasks[t].pc = "hashed" /\ tasks'[t].pc = "metadata") =>
              tasks[t].exists # ""
        /\ (tasks[t].pc # "geocode" /\ tasks'[t].pc = "geocode") =>
              tasks[t].pc = "metadata"
        /\ (tasks[t].pc = "copy" /\ tasks'[t].pc = "rename") =>
              tasks[t].exists = "no"
        /\ (tasks[t].pc # "insert" /\ tasks'[t].pc = "insert") =>
              tasks[t].pc = "rename"

C33_PipelineOrder == [][C33_OrderStep]_vars

\* C34: in every state a final destination path either does not exist or
\* holds a complete, synced copy: partial content is only ever at a
\* ".part" path.
C34_NoPartialFinal == \A f \in fs : ~f.part => f.complete

\* C34: the file copyFileAtomic writes to is one it has just created, at
\* a ".part" path where no file was; and when the copy, the sync or the
\* rename fails, the ".part" file is removed and every other file of the
\* library is as it was.
C34_CopyStep ==
    /\ \A f \in fs' \ fs :
          ~f.complete => f.part /\ ~fileExists(fs, f.path)
    /\ \A t \in TaskIds :
          (tasks[t].pc \in {"copying", "rename"}
              /\ tasks'[t].pc = "file_end") =>
                /\ ~fileExists(fs', PartPath(tasks[t].dest))
                /\ fs' = {f \in fs : f.path # PartPath(tasks[t].dest)}

C34_AtomicCopy == []C34_NoPartialFinal /\ [][C34_CopyStep]_vars

\* a copy is half written at its ".part" path while its destination path
\* is free, after a copy of the other run has failed
C34_HalfWritten ==
    \E t \in TaskIds :
        /\ tasks[t].pc = "copying"
        /\ \E f \in fs : f.path = PartPath(tasks[t].dest) /\ ~f.complete
        /\ ~fileExists(fs, tasks[t].dest)
        /\ \E u \in TaskIds : u # t /\ tasks[u].result.Errors > 0

\* C35: the processing set holds exactly the path-keys of the dispatched
\* runs whose goroutine has not ended.
C35_ExactlyRunning ==
    processing = {PathKey(tasks[t].mount) :
                    t \in {u \in TaskIds : /\ tasks[u].kind = "queue"
                                           /\ tasks[u].pc # "done"}}

\* C35: the goroutine of a dispatched run ends by removing its path-key,
\* and an event received for a mount whose path-key is not in the set starts
\* a run of that mount.
C35_ReleaseStep ==
    /\ \A t \in TaskIds :
          (tasks[t].pc = "release" /\ tasks'[t].pc = "done") =>
              PathKey(tasks[t].mount) \notin processing'
    /\ (jobs # <<>> /\ jobs' = Tail(jobs)
            /\ PathKey(Head(jobs)) \notin processing) =>
          \E t \in TaskIds :
              /\ tasks[t].kind = "none"
              /\ tasks'[t].kind = "queue"
              /\ tasks'[t].mount = Head(jobs)

\* C35: a dispatched run that has returned, with a result or with an
\* error, is followed by the end of its goroutine.
C35_Ends ==
    \A t \in TaskIds :
        (tasks[t].kind = "queue" /\ tasks[t].pc = "release")
            ~> (tasks[t].pc = "done")

\* C35: after a queue-dispatched run ends, with a result or an error, its
\* path-key is removed from the processing set; the set holds exactly the
\* path-keys of the running dispatched runs, and a later event for the
\* same mount is dispatched rather than skipped.
C35_KeyReleased ==
    /\ []C35_ExactlyRunning
    /\ [][C35_ReleaseStep]_vars
    /\ C35_Ends

\* a run of a mount returned an error and ended, and a later event for the
\* same mount has started a second run
C35_DispatchedAgain ==
    /\ tasks[1].kind = "queue"
    /\ tasks[1].pc = "done"
    /\ tasks[1].ret = "error"
    /\ tasks[2].kind = "queue"
    /\ tasks[2].mount = tasks[1].mount
    /\ Running(2)

\* the events for a mount that wait in the queue
Pending(q, m) == Cardinality({i \in 1..Len(q) : q[i] = m})

\* the dispatched runs of a mount
Dispatched(ts, m) ==
    Cardinality({t \in TaskIds : ts[t].kind = "queue" /\ ts[t].mount = m})

\* C36: an event that was dropped or skipped is never delivered again
\* while the mount stays attached: onNew is called for a mount, and an event
\* for it enters the queue, only in a tick that finds the mount after an
\* enumeration without it; a dispatched run starts only by taking an event
\* from the queue; a dropped or skipped event leaves nothing behind.
C36_EventStep ==
    \A m \in Volumes :
        /\ (\/ Pending(jobs', m) > Pending(jobs, m)
            \/ CallsIn(watcher.calls', watcher.ticks', m)
                  > CallsIn(watcher.calls, watcher.ticks', m)) =>
              /\ watcher.ticks' = watcher.ticks + 1
              /\ m \in watcher.mounted
              /\ PathKey(m) \notin watcher.last
        /\ Dispatched(tasks', m) > Dispatched(tasks, m) =>
              /\ Pending(jobs', m) = Pending(jobs, m) - 1
              /\ Dispatched(tasks', m) = Dispatched(tasks, m) + 1
        /\ (dropLogged' /\ ~dropLogged) => jobs' = jobs

C36_NoRedelivery == [][C36_EventStep]_vars

\* the volume is attached and the last tick found it again, the event of
\* its second appearance was dropped or skipped, the queue is empty and no
\* run is active: one run was dispatched for two appearances
C36_LostWhileAttached ==
    /\ MountA \in watcher.mounted
    /\ PathKey(MountA) \in watcher.seen
    /\ Len(watcher.calls) = 2
    /\ watcher.ticks = MaxTicks
    /\ watcher.calls[2].tick < MaxTicks
    /\ jobs = <<>>
    /\ Dispatched(tasks, MountA) = 1
    /\ \A t \in TaskIds : ~Running(t) /\ tasks[t].pc # "release"

\* C37: on every completed run Copied + Duplicates + Errors <= Scanned, and
\* the status never shows more processed files than total files.
C37_Counts ==
    /\ \A t \in TaskIds :
          (tasks[t].kind \in {"queue", "rescan"}
              /\ tasks[t].pc \in {"release", "done"}) =>
                tasks[t].result.Copied + tasks[t].result.Duplicates
                    + tasks[t].result.Errors <= tasks[t].result.Scanned
    /\ status.ProcessedFiles <= status.TotalFiles

\* the originating call of a joined caller
JoinedCall(j) == geo.calls[Caller(j).call]

\* C38 as stated: every caller that leaves its wait on an in-flight call
\* returns the pair of the originating call.
C38_SamePairStep ==
    \A j \in GeoCallers :
        (Caller(j).pc = "join" /\ Caller(j).pc' # "join") =>
            /\ JoinedCall(j).done
            /\ Caller(j).loc' = JoinedCall(j).loc
            /\ Caller(j).err' = JoinedCall(j).err

C38_JoinStep ==
    \A j \in GeoCallers :
        (Caller(j).pc = "join" /\ Caller(j).pc' # "join") =>
            \/ /\ JoinedCall(j).done
               /\ Caller(j).loc' = JoinedCall(j).loc
               /\ Caller(j).err' = JoinedCall(j).err
            \/ /\ Caller(j).ctx = "cancelled"
               /\ Caller(j).loc' = NoLoc
               /\ Caller(j).err' = "canceled"

\* C38: every entry of the in-flight map belongs to a call whose originator
\* has not yet published: once the originating call has returned, with a
\* location or an error, the map holds no entry of it.
C38_NoStaleEntry ==
    \A k \in DOMAIN geo.inflight :
        LET call == geo.calls[geo.inflight[k]]
        IN  /\ ~call.done
            /\ Caller(call.origin).call = geo.inflight[k]
            /\ Caller(call.origin).key = k
            /\ Caller(call.origin).pc \in
                  {"rate", "sleep", "response", "publish"}

C39_OneRun ==
    /\ Cardinality(ActiveBackups(app.backup)) <= 1
    /\ app.backup.status.State = "running"
          <=> ActiveBackups(app.backup) # {}

\* C39 as stated: every call of Start made while the state is running
\* returns ErrBusy, starts no run and leaves the status unchanged.
C39_BusyStep ==
    (app.backup.call.seq' # app.backup.call.seq
        /\ app.backup.status.State = "running") =>
          /\ app.backup.call.ret' = "ErrBusy"
          /\ app.backup.runs' = app.backup.runs
          /\ app.backup.status' = app.backup.status

C39_StartStep ==
    /\ (app.backup.call.seq' # app.backup.call.seq
          /\ app.backup.status.State = "running") =>
            /\ app.backup.call.ret' \in {"ErrBusy", "ErrInvalidRequest"}
            /\ app.backup.runs' = app.backup.runs
            /\ app.backup.status' = app.backup.status
    /\ (app.backup.status.State' = "running"
          /\ app.backup.status.State # "running") =>
            /\ app.backup.call.seq' # app.backup.call.seq
            /\ app.backup.call.ret' = "nil"
            /\ Len(app.backup.runs') = Len(app.backup.runs) + 1
    /\ (app.backup.status.State = "running"
          /\ app.backup.status.State' # "running") =>
            /\ app.backup.status.State' \in {"success", "error"}
            /\ ActiveBackups(app.backup') = {}
            /\ app.backup.call' = app.backup.call

====
